---- MODULE Spec2Model ----
(***************************************************************************)
(* The word-ladder graph engine of Crossclimb.                             *)
(*                                                                         *)
(* scripts/preprocess-dictionary (src/unnamed/part_005, lines 167-331)     *)
(* turns dictionary.txt into one artifact data/words-<length>.json per     *)
(* word length: the word list, the one-letter-substitution graph and the   *)
(* connectivity groups.  The route POST /api/word-ladder                   *)
(* (src/unnamed/part_006, lines 79-264) loads an artifact through an       *)
(* in-memory cache and answers a shortest-path query.  The game board      *)
(* (useGame in src/unnamed/part_005, lines 1-164, GameBoard.tsx and Word   *)
(* in src/unnamed/part_002) is the player's side of a puzzle.              *)
(*                                                                         *)
(* A string is a sequence of one-character strings, so that length,        *)
(* slicing, trimming and letter case are what the code computes.           *)
(***************************************************************************)
EXTENDS Integers, Sequences, FiniteSets, TLC

VARIABLES
    dictionaryFile,   \* dictionary.txt, split into its lines
    pc,               \* the preprocessing script: "read", "process", "done",
                      \* or "failed" when an exception ended it
    wordsByLength,    \* the script's wordsByLength (word length -> word list)
    lengthIdx,        \* the script's position in lengthsToProcess (1-based)
    dataFiles,        \* data/words-<length>.json: word length -> artifact,
                      \* or Truncated where a write broke off
    dictionaryCache,  \* the route's dictionaryCache: word length -> artifact
    request,          \* the request body the route is handling, if any
    response,         \* the response of the handled request, if any
    calls,            \* which functions the handler of that request called
    searchLog,        \* history: what the search of that request enqueued
                      \* and how many entries it dequeued
    filesSeen,        \* history: the data files as they were when it ran
    handlers,         \* the invocations of POST in flight at once, each one
                      \* idle, suspended at await request.json(), or answered
    storageReads,     \* history: word length -> how often loadDictionary
                      \* read and parsed its data file
    game,             \* useGame's game: the rows of the board as the player
                      \* left them, or NoGame before initGame
    title,            \* ManualMode: the title field
    edgeWords,        \* ManualMode: the starting and the ending word
    edgeHint,         \* ManualMode: the hint for the edge words
    middleWords,      \* ManualMode: the rows { word, hint }
    error,            \* ManualMode: the error shown, or NoError
    gameCreated,      \* the gameInfo handed to onGameCreated, or NoGameInfo
    puzzleStore,      \* the puzzle route: the own properties of puzzleStore
    storeProto,       \* the puzzle route: the prototype of puzzleStore
    saved,            \* history: id -> the gameInfo of the last POST answered with success
    puzzleResponse,   \* the last answer of the puzzle route
    localStorage,     \* browser -> key -> the text stored under it
    page,             \* browser -> what PlayPage shows
    loadLog,          \* history: how the last loadPuzzle went
    generated,        \* what generateWordLadderGame returned, or NotGenerated
    generateLog,      \* history: the words it was called with and the answer to its fetch
    pair,             \* the two strings differByOne is called with
    verdict,          \* what differByOne returned for them, in both orders, or NoVerdict
    focusedIndex,     \* useGame's focusedIndex: the row that has the focus, or NoFocus
    hintCooldown,     \* GameBoard's hintCooldown, in seconds
    revealCooldown,   \* GameBoard's revealCooldown, in seconds
    pendingWrite,     \* the setTimeout of handleHint that has not run, or NoWrite
    lastHintWrite     \* history: the last letter a hint wrote, and the word of its row

vars == <<dictionaryFile, pc, wordsByLength, lengthIdx, dataFiles,
          dictionaryCache, request, response, calls, searchLog, filesSeen,
          handlers, storageReads, game,
          title, edgeWords, edgeHint, middleWords, error, gameCreated,
          puzzleStore, storeProto, saved, puzzleResponse, localStorage, page, loadLog,
          generated, generateLog,
          pair, verdict,
          focusedIndex, hintCooldown, revealCooldown, pendingWrite, lastHintWrite>>

buildVars == <<dictionaryFile, pc, wordsByLength, lengthIdx, dataFiles>>

serverVars ==
    <<dictionaryCache, request, response, calls, searchLog, filesSeen,
      handlers, storageReads>>

poolVars == <<handlers, storageReads>>

gameVars == <<game>>

manualVars == <<title, edgeWords, edgeHint, middleWords, error, gameCreated>>

publishVars == <<puzzleStore, storeProto, saved, puzzleResponse, localStorage, page, loadLog>>

generateVars == <<generated, generateLog>>

pairVars == <<pair, verdict>>

hintVars == <<focusedIndex, hintCooldown, revealCooldown, pendingWrite, lastHintWrite>>

\* What is neither the script's, the route's nor the board's.
appVars == <<manualVars, publishVars, generateVars, pairVars, hintVars>>

----------------------------------------------------------------------------
(* Bounds of the model. *)

\* The longest dictionary.txt (lines after the header) of SpecBuild.
MaxLines == 4

\* The most words of the fixture a dictionary.txt of Spec holds.
MaxWords == 5

\* The most invocations of POST in flight at once in SpecConcurrent.
MaxHandlers == 2

\* Where the count of the reads of one data file stops.
MaxReads == 2

\* The most rows of middle words the form of ManualMode holds.
MaxRows == 2

\* The most instants of time a puzzle is saved at.
MaxTime == 2

\* The most letters of a string differByOne is called with.
MaxLen == 2

----------------------------------------------------------------------------
(* Strings. *)

Range(s) == {s[i] : i \in 1..Len(s)}

\* What /[A-Z]/ matches, within the alphabet of the model.
UpperLetters == {"A", "B", "C"}

\* String.prototype.toUpperCase, one character.
UpperChar(c) ==
    CASE c = "a" -> "A"
      [] c = "b" -> "B"
      [] c = "c" -> "C"
      [] OTHER -> c

\* toUpperCase with a fault: the string is left as it is.
toUpperCaseAsIs(s) == s

\* String.prototype.toUpperCase
toUpperCase(s) == [i \in 1..Len(s) |-> UpperChar(s[i])]

RECURSIVE trimStart(_)
trimStart(s) ==
    IF Len(s) > 0 /\ Head(s) = " " THEN trimStart(Tail(s)) ELSE s

RECURSIVE trimEnd(_)
trimEnd(s) ==
    IF Len(s) > 0 /\ s[Len(s)] = " "
    THEN trimEnd(SubSeq(s, 1, Len(s) - 1))
    ELSE s

\* String.prototype.trim (white space is the space character here).
trim(s) == trimEnd(trimStart(s))

\* /^[A-Z]+$/.test(word)
IsAllLetters(word) ==
    Len(word) > 0 /\ \A i \in 1..Len(word) : word[i] \in UpperLetters

----------------------------------------------------------------------------
(* The preprocessing script: reading dictionary.txt. *)

\* .map(line => line.trim().toUpperCase())
\* .filter(word => word.length > 0 && /^[A-Z]+$/.test(word)), over lines.slice(1)
RECURSIVE CleanLines(_, _)
CleanLines(lines, k) ==
    IF k > Len(lines) THEN <<>>
    ELSE LET word == toUpperCase(trim(lines[k]))
         IN  IF Len(word) > 0 /\ IsAllLetters(word)
             THEN <<word>> \o CleanLines(lines, k + 1)
             ELSE CleanLines(lines, k + 1)

\* const words = lines.slice(1)...: the header line is skipped.
ReadWords(lines) == CleanLines(Tail(lines), 1)

\* The loop that fills wordsByLength, from its k-th word on.
RECURSIVE GroupByLength(_, _, _)
GroupByLength(words, k, byLength) ==
    IF k > Len(words) THEN byLength
    ELSE LET word == words[k]
             len == Len(word)
         IN  GroupByLength(words, k + 1,
                 IF len \in DOMAIN byLength
                 THEN [byLength EXCEPT ![len] = Append(@, word)]
                 ELSE byLength @@ (len :> <<word>>))

\* const lengthsToProcess = [2, 3, 4, 5, 6, 7, 8, 9, 10]
lengthsToProcess == <<2, 3, 4, 5, 6, 7, 8, 9, 10>>

----------------------------------------------------------------------------
(* The preprocessing script: the graph of one word length. *)

\* word.slice(0, i) + '_' + word.slice(i + 1), with i counted from 1.
Pattern(word, i) == [word EXCEPT ![i] = "_"]

\* Step 1, the inner loop: the word is pushed to the bucket of each of its
\* patterns, from position i on.
RECURSIVE AddPatterns(_, _, _)
AddPatterns(word, i, patternMap) ==
    IF i > Len(word) THEN patternMap
    ELSE LET pattern == Pattern(word, i)
         IN  AddPatterns(word, i + 1,
                 IF pattern \in DOMAIN patternMap
                 THEN [patternMap EXCEPT ![pattern] = Append(@, word)]
                 ELSE patternMap @@ (pattern :> <<word>>))

\* Step 1, the outer loop over wordList, from its k-th word on.
RECURSIVE BuildPatternMap(_, _, _)
BuildPatternMap(wordList, k, patternMap) ==
    IF k > Len(wordList) THEN patternMap
    ELSE BuildPatternMap(wordList, k + 1, AddPatterns(wordList[k], 1, patternMap))

\* WordsInPattern with a fault: the loop over the bucket starts one word late.
WordsInPatternSkipFirst(patternMap, pattern) ==
    IF pattern \in DOMAIN patternMap THEN Tail(patternMap[pattern]) ELSE <<>>

\* const wordsInPattern = patternMap[pattern] || []
WordsInPattern(patternMap, pattern) ==
    IF pattern \in DOMAIN patternMap THEN patternMap[pattern] ELSE <<>>

\* IsOtherWord with a fault: the word itself is not excluded.
IsOtherWordAlways(neighbor, word) == TRUE

\* if (neighbor !== word)
IsOtherWord(neighbor, word) == neighbor # word

\* neighborSet.add(neighbor): a Set keeps insertion order and no duplicates.
SetAdd(set, x) == IF x \in Range(set) THEN set ELSE Append(set, x)

\* for (const neighbor of wordsInPattern), from the j-th word of the bucket on.
RECURSIVE AddNeighbors(_, _, _, _)
AddNeighbors(word, wordsInPattern, j, neighborSet) ==
    IF j > Len(wordsInPattern) THEN neighborSet
    ELSE AddNeighbors(word, wordsInPattern, j + 1,
             IF IsOtherWord(wordsInPattern[j], word)
             THEN SetAdd(neighborSet, wordsInPattern[j])
             ELSE neighborSet)

\* Step 2, the loop over the positions of one word, from position i on.
RECURSIVE NeighborsOf(_, _, _, _)
NeighborsOf(word, i, patternMap, neighborSet) ==
    IF i > Len(word) THEN neighborSet
    ELSE NeighborsOf(word, i + 1, patternMap,
             AddNeighbors(word, WordsInPattern(patternMap, Pattern(word, i)),
                          1, neighborSet))

\* Step 2, the loop over wordList: graph[word] = Array.from(neighborSet).
RECURSIVE BuildGraph(_, _, _, _)
BuildGraph(wordList, k, patternMap, graph) ==
    IF k > Len(wordList) THEN graph
    ELSE LET word == wordList[k]
             neighbors == NeighborsOf(word, 1, patternMap, <<>>)
         IN  BuildGraph(wordList, k + 1, patternMap,
                 IF word \in DOMAIN graph
                 THEN [graph EXCEPT ![word] = neighbors]
                 ELSE graph @@ (word :> neighbors))

\* The empty object {} (a mapping with no key).
EmptyMap == [x \in {} |-> <<>>]

----------------------------------------------------------------------------
(* The preprocessing script: the connectivity groups of one word length. *)

\* graph[current] || []
NeighborList(graph, word) ==
    IF word \in DOMAIN graph THEN graph[word] ELSE <<>>

\* for (const neighbor of graph[current] || []): unvisited neighbors are
\* marked visited and pushed on the queue.
RECURSIVE EnqueueNeighbors(_, _, _, _)
EnqueueNeighbors(neighbors, j, visited, queue) ==
    IF j > Len(neighbors) THEN [visited |-> visited, queue |-> queue]
    ELSE IF neighbors[j] \notin visited
         THEN EnqueueNeighbors(neighbors, j + 1, visited \cup {neighbors[j]},
                               Append(queue, neighbors[j]))
         ELSE EnqueueNeighbors(neighbors, j + 1, visited, queue)

\* GroupBfs with a fault: the words reached are not expanded further.
RECURSIVE GroupBfsOneLevel(_, _, _, _)
GroupBfsOneLevel(queue, visited, group, graph) ==
    IF Len(queue) = 0 THEN [group |-> group, visited |-> visited]
    ELSE LET current == Head(queue)
             next == IF Len(group) = 0
                     THEN EnqueueNeighbors(NeighborList(graph, current), 1,
                                           visited, Tail(queue))
                     ELSE [visited |-> visited, queue |-> Tail(queue)]
         IN  GroupBfsOneLevel(next.queue, next.visited, Append(group, current), graph)

\* while (queue.length > 0) { const current = queue.shift(); group.push(current); ... }
RECURSIVE GroupBfs(_, _, _, _)
GroupBfs(queue, visited, group, graph) ==
    IF Len(queue) = 0 THEN [group |-> group, visited |-> visited]
    ELSE LET current == Head(queue)
             next == EnqueueNeighbors(NeighborList(graph, current), 1,
                                      visited, Tail(queue))
         IN  GroupBfs(next.queue, next.visited, Append(group, current), graph)

\* AlreadyVisited with a fault: the check is gone.
AlreadyVisitedNever(visited, word) == FALSE

\* if (visited.has(word)) continue;
AlreadyVisited(visited, word) == word \in visited

\* for (const word of wordList), from the k-th word on; groups[groupId] is
\* the (groupId + 1)-th element of the sequence groups.
RECURSIVE FindGroups(_, _, _, _, _)
FindGroups(wordList, k, visited, groups, graph) ==
    IF k > Len(wordList) THEN groups
    ELSE LET word == wordList[k]
         IN  IF AlreadyVisited(visited, word)
             THEN FindGroups(wordList, k + 1, visited, groups, graph)
             ELSE LET found == GroupBfs(<<word>>, visited \cup {word}, <<>>, graph)
                  IN  FindGroups(wordList, k + 1, found.visited,
                          IF Len(found.group) > 0
                          THEN Append(groups, found.group)
                          ELSE groups,
                          graph)

\* const data: DictionaryData = { words: wordList, graph, groups }
BuildData(wordList) ==
    LET patternMap == BuildPatternMap(wordList, 1, EmptyMap)
        graph == BuildGraph(wordList, 1, patternMap, EmptyMap)
    IN  [words |-> wordList,
         graph |-> graph,
         groups |-> FindGroups(wordList, 1, {}, <<>>, graph)]

----------------------------------------------------------------------------
(* The preprocessing script as steps. *)

\* fs.readFileSync(dictionaryPath) ... wordsByLength[len].push(word)
ReadDictionary ==
    /\ pc = "read"
    /\ wordsByLength' = GroupByLength(ReadWords(dictionaryFile), 1, EmptyMap)
    /\ lengthIdx' = 1
    /\ pc' = "process"
    /\ UNCHANGED <<dictionaryFile, dataFiles>>
    /\ UNCHANGED serverVars
    /\ UNCHANGED gameVars
    /\ UNCHANGED appVars

\* if (!wordList || wordList.length === 0) continue;
NoWordList(byLength, length) ==
    IF length \notin DOMAIN byLength THEN TRUE ELSE Len(byLength[length]) = 0

\* One iteration of for (const length of lengthsToProcess) that finds no
\* word of that length.
SkipLength ==
    /\ pc = "process"
    /\ lengthIdx <= Len(lengthsToProcess)
    /\ NoWordList(wordsByLength, lengthsToProcess[lengthIdx])
    /\ lengthIdx' = lengthIdx + 1
    /\ UNCHANGED <<dictionaryFile, pc, wordsByLength, dataFiles>>
    /\ UNCHANGED serverVars
    /\ UNCHANGED gameVars
    /\ UNCHANGED appVars

\* One iteration of for (const length of lengthsToProcess) that builds the
\* graph and the groups and writes data/words-<length>.json.
ProcessLength ==
    /\ pc = "process"
    /\ lengthIdx <= Len(lengthsToProcess)
    /\ ~NoWordList(wordsByLength, lengthsToProcess[lengthIdx])
    /\ LET length == lengthsToProcess[lengthIdx]
           data == BuildData(wordsByLength[length])
       IN  dataFiles' = IF length \in DOMAIN dataFiles
                        THEN [dataFiles EXCEPT ![length] = data]
                        ELSE dataFiles @@ (length :> data)
    /\ lengthIdx' = lengthIdx + 1
    /\ UNCHANGED <<dictionaryFile, pc, wordsByLength>>
    /\ UNCHANGED serverVars
    /\ UNCHANGED gameVars
    /\ UNCHANGED appVars

\* The text of a file whose write broke off: a proper prefix of the JSON
\* text of an artifact, which JSON.parse rejects.
Truncated == [truncated |-> TRUE]

\* fs.readFileSync(dictionaryPath, 'utf-8') throws (dictionary.txt is missing
\* or cannot be read): the script ends in .catch(console.error) with nothing
\* written.
ReadFails ==
    /\ pc = "read"
    /\ pc' = "failed"
    /\ UNCHANGED <<dictionaryFile, wordsByLength, lengthIdx, dataFiles>>
    /\ UNCHANGED serverVars
    /\ UNCHANGED gameVars
    /\ UNCHANGED appVars

\* fs.writeFileSync(outputPath, ...) throws (the disk is full, the process
\* is stopped): it writes to outputPath itself, so either the file was not
\* opened and is as before, or it holds the part written so far.  The script
\* ends in .catch(console.error).
WriteFails ==
    /\ pc = "process"
    /\ lengthIdx <= Len(lengthsToProcess)
    /\ ~NoWordList(wordsByLength, lengthsToProcess[lengthIdx])
    /\ \E opened \in BOOLEAN :
           LET length == lengthsToProcess[lengthIdx]
           IN  dataFiles' = IF ~opened THEN dataFiles
                            ELSE IF length \in DOMAIN dataFiles
                            THEN [dataFiles EXCEPT ![length] = Truncated]
                            ELSE dataFiles @@ (length :> Truncated)
    /\ pc' = "failed"
    /\ UNCHANGED <<dictionaryFile, wordsByLength, lengthIdx>>
    /\ UNCHANGED serverVars
    /\ UNCHANGED gameVars
    /\ UNCHANGED appVars

\* The loop is over: 'Dictionary preprocessing complete!'
FinishPreprocess ==
    /\ pc = "process"
    /\ lengthIdx > Len(lengthsToProcess)
    /\ pc' = "done"
    /\ UNCHANGED <<dictionaryFile, wordsByLength, lengthIdx, dataFiles>>
    /\ UNCHANGED serverVars
    /\ UNCHANGED gameVars
    /\ UNCHANGED appVars

----------------------------------------------------------------------------
(* The inputs of the model: dictionary files, and no request. *)

\* The first line of dictionary.txt, which the script skips.
HeaderLine == <<"#">>

\* Lines a dictionary.txt of SpecBuild is made of: words of two lengths,
\* one of them padded and in lower case, and a line that is no word.
RawLines ==
    { <<"A", "A">>, <<"A", "B">>, <<"B", "B">>, <<"C", "C">>,
      <<" ", "a", "b">>, <<"A", "1">>, <<"A", "A", "B">> }

RECURSIVE SeqsUpTo(_, _)
SeqsUpTo(S, n) ==
    IF n = 0 THEN {<<>>}
    ELSE LET shorter == SeqsUpTo(S, n - 1)
         IN  shorter \cup {Append(s, x) : s \in shorter, x \in S}

\* The words a dictionary.txt of Spec is drawn from, in file order: five
\* two-letter words (a cycle of four, AA AB BB BA, and BC next to BB and
\* BA), and one three-letter word.
Fixture ==
    << <<"A", "A">>, <<"A", "B">>, <<"B", "B">>, <<"B", "A">>,
       <<"B", "C">>, <<"A", "A", "A">> >>

\* The lines of Fixture at the positions picked, in file order.
RECURSIVE Pick(_, _)
Pick(positions, k) ==
    IF k > Len(Fixture) THEN <<>>
    ELSE IF k \in positions
         THEN <<Fixture[k]>> \o Pick(positions, k + 1)
         ELSE Pick(positions, k + 1)

FixtureFiles ==
    { <<HeaderLine>> \o Pick(positions, 1) :
        positions \in {P \in SUBSET (1..Len(Fixture)) : Cardinality(P) <= MaxWords} }

RawFiles == { <<HeaderLine>> \o lines : lines \in SeqsUpTo(RawLines, MaxLines) }

\* No request is being handled.
NoRequest == [kind |-> "none"]

\* No response has been produced.
NoResponse == [kind |-> "none"]

----------------------------------------------------------------------------
(* The route /api/word-ladder: the dictionary cache. *)

\* JSON.parse(fileContent) throws on the text of a file cut short.
ParseFails(fileContent) == fileContent = Truncated

\* loadDictionary with a fault: the cache is not looked up, the data file is
\* read on every call.
loadDictionaryAlwaysReads(wordLength, cache, files) ==
    IF wordLength \notin DOMAIN files
    THEN [found |-> FALSE, cache |-> cache,
          calls |-> {"loadDictionary", "existsSync"}]
    ELSE IF ParseFails(files[wordLength])
    THEN [found |-> FALSE, cache |-> cache,
          calls |-> {"loadDictionary", "existsSync", "readFileSync",
                     "console.error"}]
    ELSE [found |-> TRUE, data |-> files[wordLength],
          cache |-> (wordLength :> files[wordLength]) @@ cache,
          calls |-> {"loadDictionary", "existsSync", "readFileSync"}]

\* loadDictionary with a fault: the artifact read is not put in the cache.
loadDictionaryNeverCaches(wordLength, cache, files) ==
    IF wordLength \in DOMAIN cache
    THEN [found |-> TRUE, data |-> cache[wordLength], cache |-> cache,
          calls |-> {"loadDictionary"}]
    ELSE IF wordLength \notin DOMAIN files
    THEN [found |-> FALSE, cache |-> cache,
          calls |-> {"loadDictionary", "existsSync"}]
    ELSE IF ParseFails(files[wordLength])
    THEN [found |-> FALSE, cache |-> cache,
          calls |-> {"loadDictionary", "existsSync", "readFileSync",
                     "console.error"}]
    ELSE [found |-> TRUE, data |-> files[wordLength], cache |-> cache,
          calls |-> {"loadDictionary", "existsSync", "readFileSync"}]

\* loadDictionary with a fault: the artifact read is cached under the next
\* word length.
loadDictionaryWrongKey(wordLength, cache, files) ==
    IF wordLength \in DOMAIN cache
    THEN [found |-> TRUE, data |-> cache[wordLength], cache |-> cache,
          calls |-> {"loadDictionary"}]
    ELSE IF wordLength \notin DOMAIN files
    THEN [found |-> FALSE, cache |-> cache,
          calls |-> {"loadDictionary", "existsSync"}]
    ELSE IF ParseFails(files[wordLength])
    THEN [found |-> FALSE, cache |-> cache,
          calls |-> {"loadDictionary", "existsSync", "readFileSync",
                     "console.error"}]
    ELSE [found |-> TRUE, data |-> files[wordLength],
          cache |-> ((wordLength + 1) :> files[wordLength]) @@ cache,
          calls |-> {"loadDictionary", "existsSync", "readFileSync"}]

\* loadDictionary(wordLength): the cached artifact if there is one; else the
\* artifact read from data/words-<wordLength>.json, which is then cached;
\* null (found = FALSE) if the file does not exist, and null again, from the
\* catch block, if it cannot be parsed.
loadDictionary(wordLength, cache, files) ==
    IF wordLength \in DOMAIN cache
    THEN [found |-> TRUE, data |-> cache[wordLength], cache |-> cache,
          calls |-> {"loadDictionary"}]
    ELSE IF wordLength \notin DOMAIN files
    THEN [found |-> FALSE, cache |-> cache,
          calls |-> {"loadDictionary", "existsSync"}]
    ELSE IF ParseFails(files[wordLength])
    THEN [found |-> FALSE, cache |-> cache,
          calls |-> {"loadDictionary", "existsSync", "readFileSync",
                     "console.error"}]
    ELSE [found |-> TRUE, data |-> files[wordLength],
          cache |-> cache @@ (wordLength :> files[wordLength]),
          calls |-> {"loadDictionary", "existsSync", "readFileSync"}]

----------------------------------------------------------------------------
(* The route /api/word-ladder: the search. *)

\* graph[word] is defined (and an array, which is truthy).
HasWord(graph, word) == word \in DOMAIN graph

\* ExtendPath with a fault: the path keeps only its start and the new word.
ExtendPathFromStart(path, neighbor) == <<path[1], neighbor>>

\* [...path, neighbor]
ExtendPath(path, neighbor) == Append(path, neighbor)

\* PushNeighbors with a fault: a neighbor pushed is not marked visited.
RECURSIVE PushNeighborsUnmarked(_, _, _, _, _)
PushNeighborsUnmarked(neighbors, j, path, visited, queue) ==
    IF j > Len(neighbors) THEN [visited |-> visited, queue |-> queue]
    ELSE IF neighbors[j] \notin visited
         THEN PushNeighborsUnmarked(neighbors, j + 1, path, visited,
                  Append(queue, [word |-> neighbors[j],
                                 path |-> ExtendPath(path, neighbors[j])]))
         ELSE PushNeighborsUnmarked(neighbors, j + 1, path, visited, queue)

\* for (const neighbor of neighbors): unvisited neighbors are marked visited
\* and pushed on the queue with their path.
RECURSIVE PushNeighbors(_, _, _, _, _)
PushNeighbors(neighbors, j, path, visited, queue) ==
    IF j > Len(neighbors) THEN [visited |-> visited, queue |-> queue]
    ELSE IF neighbors[j] \notin visited
         THEN PushNeighbors(neighbors, j + 1, path, visited \cup {neighbors[j]},
                  Append(queue, [word |-> neighbors[j],
                                 path |-> ExtendPath(path, neighbors[j])]))
         ELSE PushNeighbors(neighbors, j + 1, path, visited, queue)

\* Shift with a fault: the last entry is taken, not the first.
ShiftLast(queue) ==
    [item |-> queue[Len(queue)], rest |-> SubSeq(queue, 1, Len(queue) - 1)]

\* const { word, path } = queue.shift()
Shift(queue) == [item |-> Head(queue), rest |-> Tail(queue)]

\* The words of the entries pushed on a queue that held before entries.
Pushed(queue, before) ==
    [i \in 1..(Len(queue) - before) |-> queue[before + i].word]

\* while (queue.length > 0) { ... }: the path of the entry that is the end
\* word, or null (found = FALSE) when the queue runs empty; with it, the
\* number of entries dequeued and the words enqueued, in order.
RECURSIVE SearchLoop(_, _, _, _)
SearchLoop(queue, visited, end, graph) ==
    IF Len(queue) = 0
    THEN [found |-> FALSE, path |-> <<>>, dequeued |-> 0, enqueued |-> <<>>]
    ELSE LET taken == Shift(queue)
         IN  IF taken.item.word = end
             THEN [found |-> TRUE, path |-> taken.item.path,
                   dequeued |-> 1, enqueued |-> <<>>]
             ELSE LET next == PushNeighbors(NeighborList(graph, taken.item.word),
                                            1, taken.item.path, visited, taken.rest)
                      rest == SearchLoop(next.queue, next.visited, end, graph)
                  IN  [found |-> rest.found, path |-> rest.path,
                       dequeued |-> rest.dequeued + 1,
                       enqueued |-> Pushed(next.queue, Len(taken.rest))
                                      \o rest.enqueued]

\* findShortestPath(startWord, endWord, graph); null is found = FALSE.
findShortestPath(startWord, endWord, graph) ==
    LET start == toUpperCase(startWord)
        end == toUpperCase(endWord)
    IN  IF ~HasWord(graph, start) \/ ~HasWord(graph, end)
        THEN [found |-> FALSE, path |-> <<>>, dequeued |-> 0, enqueued |-> <<>>]
        ELSE IF start = end
        THEN [found |-> TRUE, path |-> <<start>>,
              dequeued |-> 0, enqueued |-> <<>>]
        ELSE LET searched == SearchLoop(<<[word |-> start, path |-> <<start>>]>>,
                                        {start}, end, graph)
             IN  [searched EXCEPT !.enqueued = <<start>> \o @]

\* const groupSet = new Set(group); groupSet.has(w1) && groupSet.has(w2)
GroupHasBoth(group, w1, w2) == w1 \in Range(group) /\ w2 \in Range(group)

\* for (const group of Object.values(groups)), from the g-th group on.
RECURSIVE SomeGroupHasBoth(_, _, _, _)
SomeGroupHasBoth(groups, g, w1, w2) ==
    IF g > Len(groups) THEN FALSE
    ELSE IF GroupHasBoth(groups[g], w1, w2) THEN TRUE
    ELSE SomeGroupHasBoth(groups, g + 1, w1, w2)

\* areInSameGroup(word1, word2, groups)
areInSameGroup(word1, word2, groups) ==
    SomeGroupHasBoth(groups, 1, toUpperCase(word1), toUpperCase(word2))

----------------------------------------------------------------------------
(* The route /api/word-ladder: the handler. *)

ErrMissing == "Missing startWord or endWord"
ErrLengthMismatch == "Start and end words must have the same length"
ErrLengthRange == "Word length must be between 2 and 15 letters"
\* The message names the word length: `Dictionary for ${start.length}-letter words
\* not found. Please run preprocessing first.`
ErrNoDictionary == "Dictionary for N-letter words not found. Please run preprocessing first."
ErrNotInDictionary == "One or both words not found in dictionary"
ErrNotConnected == "Words are not connected. These words cannot be transformed into each other through valid word ladder steps."
ErrNoPath == "No valid word ladder path found"

\* NextResponse.json({ error }, { status })
Failure(status, message) == [kind |-> "error", status |-> status, error |-> message]

\* Success with a fault: length counts the steps, not the words.
SuccessCountsSteps(path) ==
    [kind |-> "success", status |-> 200, success |-> TRUE,
     path |-> path, length |-> Len(path) - 1]

\* NextResponse.json({ success: true, path, length: path.length })
Success(path) ==
    [kind |-> "success", status |-> 200, success |-> TRUE,
     path |-> path, length |-> Len(path)]

\* No search ran: nothing was enqueued or dequeued.
NoSearch == [dequeued |-> 0, enqueued |-> <<>>]

\* !startWord: a string is falsy when it is empty.
Falsy(word) == Len(word) = 0

\* LengthOutOfRange with a fault: fifteen letters are rejected too.
LengthOutOfRangeAtFifteen(length) == length < 2 \/ length >= 15

\* start.length < 2 || start.length > 15
LengthOutOfRange(length) == length < 2 \/ length > 15

\* CheckLengths with a fault: the range is checked before the mismatch.
CheckLengthsRangeFirst(start, end) ==
    IF LengthOutOfRange(Len(start)) THEN Failure(400, ErrLengthRange)
    ELSE IF Len(start) # Len(end) THEN Failure(400, ErrLengthMismatch)
    ELSE NoResponse

\* The two checks of the lengths, in the handler's order; NoResponse when
\* both pass.
CheckLengths(start, end) ==
    IF Len(start) # Len(end) THEN Failure(400, ErrLengthMismatch)
    ELSE IF LengthOutOfRange(Len(start)) THEN Failure(400, ErrLengthRange)
    ELSE NoResponse

\* Resolve with a fault: the search runs without the check of the groups.
ResolveWithoutGroupCheck(start, end, dictionary) ==
    IF ~HasWord(dictionary.graph, start) \/ ~HasWord(dictionary.graph, end)
    THEN [response |-> Failure(400, ErrNotInDictionary), calls |-> {},
          search |-> NoSearch]
    ELSE LET path == findShortestPath(start, end, dictionary.graph)
         IN  [response |-> IF ~path.found \/ Len(path.path) < 2
                           THEN Failure(404, ErrNoPath)
                           ELSE Success(path.path),
              calls |-> {"findShortestPath"},
              search |-> [dequeued |-> path.dequeued,
                          enqueued |-> path.enqueued]]

\* The handler once the dictionary is loaded: the words are looked up, the
\* groups are compared, and only then the search runs.
Resolve(start, end, dictionary) ==
    IF ~HasWord(dictionary.graph, start) \/ ~HasWord(dictionary.graph, end)
    THEN [response |-> Failure(400, ErrNotInDictionary), calls |-> {},
          search |-> NoSearch]
    ELSE IF ~areInSameGroup(start, end, dictionary.groups)
    THEN [response |-> Failure(400, ErrNotConnected),
          calls |-> {"areInSameGroup"}, search |-> NoSearch]
    ELSE LET path == findShortestPath(start, end, dictionary.graph)
         IN  [response |-> IF ~path.found \/ Len(path.path) < 2
                           THEN Failure(404, ErrNoPath)
                           ELSE Success(path.path),
              calls |-> {"areInSameGroup", "findShortestPath"},
              search |-> [dequeued |-> path.dequeued,
                          enqueued |-> path.enqueued]]

\* The handler from the parsed body on: response, cache and calls made.
Handle(body, cache, files) ==
    IF Falsy(body.startWord) \/ Falsy(body.endWord)
    THEN [response |-> Failure(400, ErrMissing), cache |-> cache, calls |-> {},
          search |-> NoSearch]
    ELSE LET start == trim(toUpperCase(body.startWord))
             end == trim(toUpperCase(body.endWord))
             lengths == CheckLengths(start, end)
         IN  IF lengths # NoResponse
             THEN [response |-> lengths, cache |-> cache, calls |-> {},
                   search |-> NoSearch]
             ELSE LET loaded == loadDictionary(Len(start), cache, files)
                  IN  IF ~loaded.found
                      THEN [response |-> Failure(404, ErrNoDictionary),
                            cache |-> loaded.cache, calls |-> loaded.calls,
                            search |-> NoSearch]
                      ELSE LET resolved == Resolve(start, end, loaded.data)
                           IN  [response |-> resolved.response,
                                cache |-> loaded.cache,
                                calls |-> loaded.calls \cup resolved.calls,
                                search |-> resolved.search]

ErrInternal == "Internal server error"

\* A request whose body is no JSON text: await request.json() rejects.
MalformedBody == [kind |-> "malformed"]

\* A body whose startWord is a number other than 0: it is truthy, and
\* startWord.toUpperCase is not a function.
NonStringBody == [kind |-> "nonstring"]

\* The try block throws on this request.
Throws(req) == req.kind \in {"malformed", "nonstring"}

\* TryHandle with a fault: there is no catch block, the exception leaves
\* the handler.
TryHandleUncaught(req, cache, files) ==
    IF Throws(req)
    THEN [response |-> [kind |-> "exception"], cache |-> cache, calls |-> {},
          search |-> NoSearch]
    ELSE Handle(req, cache, files)

\* try { ... } catch (error) { ... }: whatever is thrown becomes the
\* response 500 'Internal server error'.
TryHandle(req, cache, files) ==
    IF Throws(req)
    THEN [response |-> Failure(500, ErrInternal), cache |-> cache,
          calls |-> {"console.error"}, search |-> NoSearch]
    ELSE Handle(req, cache, files)

\* A string of n letters A.
Letters(n) == [i \in 1..n |-> "A"]

\* The bodies { startWord, endWord } of the model's requests.
Body(startWord, endWord) ==
    [kind |-> "body", startWord |-> startWord, endWord |-> endWord]

\* Pairs of words beside the fixture: a missing word, blank words, words of
\* one, fifteen and sixteen letters, unequal lengths, lower case and padding.
ProbePairs ==
    { << <<>>, <<>> >>,
      << <<>>, <<"A", "A">> >>,
      << <<"A", "A">>, <<>> >>,
      << <<" ">>, <<" ">> >>,
      << Letters(1), Letters(1) >>,
      << Letters(1), Letters(2) >>,
      << Letters(15), Letters(15) >>,
      << Letters(16), Letters(16) >>,
      << Letters(16), Letters(15) >>,
      << <<"a", "b">>, <<" ", "b", "c", " ">> >>,
      << <<"a", "a">>, <<"A", "A">> >> }

RequestBodies ==
    { Body(s, e) : s \in Range(Fixture), e \in Range(Fixture) }
      \cup { Body(p[1], p[2]) : p \in ProbePairs }

\* The requests of the model: the bodies of two strings, and the two on
\* which the handler throws.
Requests == RequestBodies \cup {MalformedBody, NonStringBody}

\* const body = await request.json(): a request arrives.
ReceiveRequest ==
    /\ request = NoRequest
    /\ \E req \in Requests : request' = req
    /\ response' = NoResponse
    /\ calls' = {}
    /\ searchLog' = NoSearch
    /\ filesSeen' = EmptyMap
    /\ UNCHANGED dictionaryCache
    /\ UNCHANGED poolVars
    /\ UNCHANGED buildVars
    /\ UNCHANGED gameVars
    /\ UNCHANGED appVars

\* export async function POST(request), after the body is parsed.
POST ==
    /\ request # NoRequest
    /\ response = NoResponse
    /\ LET handled == TryHandle(request, dictionaryCache, dataFiles)
       IN  /\ response' = handled.response
           /\ dictionaryCache' = handled.cache
           /\ calls' = handled.calls
           /\ searchLog' = handled.search
    /\ filesSeen' = dataFiles
    /\ UNCHANGED request
    /\ UNCHANGED poolVars
    /\ UNCHANGED buildVars
    /\ UNCHANGED gameVars
    /\ UNCHANGED appVars

\* The response is sent; the route is ready for the next request.
SendResponse ==
    /\ request # NoRequest
    /\ response # NoResponse
    /\ request' = NoRequest
    /\ response' = NoResponse
    /\ calls' = {}
    /\ searchLog' = NoSearch
    /\ filesSeen' = EmptyMap
    /\ UNCHANGED dictionaryCache
    /\ UNCHANGED poolVars
    /\ UNCHANGED buildVars
    /\ UNCHANGED gameVars
    /\ UNCHANGED appVars

----------------------------------------------------------------------------
(* The route /api/word-ladder: several invocations of POST in one process. *)
(* A handler yields only at await request.json(); from the parsed body to   *)
(* its return statement it runs without interruption, loadDictionary with   *)
(* its synchronous file calls included.                                     *)

Handlers == 1..MaxHandlers

\* A handler that is not running.
Idle ==
    [pc |-> "idle", request |-> NoRequest, response |-> NoResponse,
     calls |-> {}, files |-> EmptyMap]

\* The requests made at once: a pair that two shortest paths join, in upper
\* and in mixed case, and a pair of three letters.
ConcurrentRequests ==
    { Body(<<"B", "A">>, <<"A", "B">>),
      Body(<<"b", "a">>, <<"A", "b">>),
      Body(<<"A", "A", "A">>, <<"A", "A", "A">>) }

\* loadDictionary read and parsed a data file in this run of the handler.
ReadStorage(handled) ==
    "readFileSync" \in handled.calls /\ "console.error" \notin handled.calls

\* The count of reads after a run of the handler for words of this length.
CountRead(reads, length, handled) ==
    IF ~ReadStorage(handled) THEN reads
    ELSE IF length \notin DOMAIN reads THEN reads @@ (length :> 1)
    ELSE IF reads[length] >= MaxReads THEN reads
    ELSE [reads EXCEPT ![length] = @ + 1]

\* A request arrives: a handler starts and is suspended at
\* await request.json().
Arrive(h) ==
    /\ handlers[h].pc = "idle"
    /\ \E req \in ConcurrentRequests :
           handlers' = [handlers EXCEPT ![h] = [Idle EXCEPT !.pc = "json",
                                                           !.request = req]]
    /\ UNCHANGED <<dictionaryCache, request, response, calls, searchLog,
                   filesSeen, storageReads>>
    /\ UNCHANGED buildVars
    /\ UNCHANGED gameVars
    /\ UNCHANGED appVars

\* The handler resumes with the parsed body and runs to its return
\* statement.
Resume(h) ==
    /\ handlers[h].pc = "json"
    /\ LET req == handlers[h].request
           handled == TryHandle(req, dictionaryCache, dataFiles)
       IN  /\ handlers' = [handlers EXCEPT ![h] =
                              [pc |-> "answered", request |-> req,
                               response |-> handled.response,
                               calls |-> handled.calls, files |-> dataFiles]]
           /\ dictionaryCache' = handled.cache
           /\ storageReads' =
                  CountRead(storageReads, Len(trim(toUpperCase(req.startWord))),
                            handled)
    /\ UNCHANGED <<request, response, calls, searchLog, filesSeen>>
    /\ UNCHANGED buildVars
    /\ UNCHANGED gameVars
    /\ UNCHANGED appVars

\* The response of the handler is sent.
Reply(h) ==
    /\ handlers[h].pc = "answered"
    /\ handlers' = [handlers EXCEPT ![h] = Idle]
    /\ UNCHANGED <<dictionaryCache, request, response, calls, searchLog,
                   filesSeen, storageReads>>
    /\ UNCHANGED buildVars
    /\ UNCHANGED gameVars
    /\ UNCHANGED appVars

----------------------------------------------------------------------------
(* The game board: useGame (src/unnamed/part_005, lines 1-164), GameBoard  *)
(* and SortableWordList (src/components/GameBoard.tsx) and Word            *)
(* (src/unnamed/part_002, lines 167-341).                                  *)

\* useState<Game | null>(null)
NoGame == [kind |-> "null"]

\* Array(n).fill(' ').join('')
EmptyString(n) == [i \in 1..n |-> " "]

\* The positions at which two strings of one length differ, from i on.
RECURSIVE DiffCount(_, _, _)
DiffCount(str1, str2, i) ==
    IF i > Len(str1) THEN 0
    ELSE (IF UpperChar(str1[i]) # UpperChar(str2[i]) THEN 1 ELSE 0)
           + DiffCount(str1, str2, i + 1)

\* differByOne with a fault: diffCount <= 1 is returned.
differByOneAtMost(str1, str2) ==
    IF Len(str1) # Len(str2) THEN FALSE
    ELSE DiffCount(str1, str2, 1) <= 1

\* differByOne(str1, str2)
differByOne(str1, str2) ==
    IF Len(str1) # Len(str2) THEN FALSE
    ELSE DiffCount(str1, str2, 1) = 1

\* game.words.every(word => word.correct.toUpperCase() ===
\* word.current.toUpperCase())
isHalfSolved(g) ==
    \A i \in 1..Len(g.words) :
        toUpperCase(g.words[i].correct) = toUpperCase(g.words[i].current)

\* Every row but the last differs by one letter from the row below it.
isSorted(g) ==
    \A i \in 1..(Len(g.words) - 1) :
        differByOne(g.words[i].current, g.words[i + 1].current)

\* Both edge rows hold one of the two edge words, the top one next to the
\* first row and the bottom one next to the last.
isSolved(g) ==
    /\ \A i \in 1..2 :
          \E j \in 1..2 :
              toUpperCase(g.edgeWords[j]) = toUpperCase(g.currentEdgeWords[i])
    /\ differByOne(g.currentEdgeWords[1], g.words[1].current)
    /\ differByOne(g.currentEdgeWords[2], g.words[Len(g.words)].current)

\* useGame's gameStatus
gameStatus(g) ==
    IF g = NoGame THEN "idle"
    ELSE IF ~isHalfSolved(g) THEN "error"
    ELSE IF ~isSorted(g) THEN "unsorted"
    ELSE IF ~isSolved(g) THEN "sorted"
    ELSE "solved"

\* The puzzle played: the ladder AA, AB, BB, BA, its first and last word on
\* the edge rows.
TheGameInfo ==
    [words |-> << [correct |-> <<"A", "B">>], [correct |-> <<"B", "B">>] >>,
     edgeWords |-> << <<"A", "A">>, <<"B", "A">> >>]

\* A second puzzle, of one middle word: the ladder AA, AB, BB.
ShortGameInfo ==
    [words |-> << [correct |-> <<"A", "B">>] >>,
     edgeWords |-> << <<"A", "A">>, <<"B", "B">> >>]

\* The puzzles played, saved and loaded.
GameInfos == {TheGameInfo, ShortGameInfo}

\* The orders [...gameInfo.words].sort(() => Math.random() - 0.5) may give.
Shuffles(words) ==
    { [i \in 1..Len(words) |-> words[order[i]]] :
        order \in {f \in [1..Len(words) -> 1..Len(words)] :
                     \A i \in 1..Len(words), j \in 1..Len(words) :
                         i # j => f[i] # f[j]} }

\* initGame(gameInfo): the rows shuffled and blank, the edge rows blank.
initGame(gameInfo, shuffledWords) ==
    [words |-> [i \in 1..Len(shuffledWords) |->
                   [correct |-> shuffledWords[i].correct,
                    current |-> EmptyString(Len(gameInfo.edgeWords[1]))]],
     edgeWords |-> gameInfo.edgeWords,
     currentEdgeWords |-> << EmptyString(Len(gameInfo.edgeWords[1])),
                             EmptyString(Len(gameInfo.edgeWords[1])) >>]

\* replaceWord(index, text)
replaceWord(g, index, text) ==
    [g EXCEPT !.words[index].current = text]

\* replaceTop(word)
replaceTop(g, word) ==
    [g EXCEPT !.currentEdgeWords = <<word, g.currentEdgeWords[2]>>]

\* replaceBottom(word)
replaceBottom(g, word) ==
    [g EXCEPT !.currentEdgeWords = <<g.currentEdgeWords[1], word>>]

\* newWords.splice(at, 0, item)
InsertAt(seq, at, item) ==
    SubSeq(seq, 1, at - 1) \o <<item>> \o SubSeq(seq, at, Len(seq))

\* newWords.splice(at, 1)
RemoveAt(seq, at) ==
    SubSeq(seq, 1, at - 1) \o SubSeq(seq, at + 1, Len(seq))

\* reorderWord(fromIndex, toIndex)
reorderWord(g, fromIndex, toIndex) ==
    [g EXCEPT !.words = InsertAt(RemoveAt(g.words, fromIndex), toIndex,
                                 g.words[fromIndex])]

\* The keys pressed: a letter, a letter in lower case, a key that clears,
\* and a key that is no letter.
Keys == {"A", "b", "Backspace", "1"}

\* /^[a-zA-Z]$/.test(e.key)
isLetter(key) == key \in {"A", "B", "C", "a", "b", "c"}

\* Blocked with a fault: the row takes keys whatever it is told.
BlockedNever(isReadonly, isLocked) == FALSE

\* if (isReadonly || isLocked) { e.preventDefault(); return; }
Blocked(isReadonly, isLocked) == isReadonly \/ isLocked

\* Word's handleKeydown(index, e): the letters the row holds after the key.
handleKeydown(letters, index, key, isReadonly, isLocked) ==
    IF Blocked(isReadonly, isLocked) THEN letters
    ELSE IF key \in {"Tab", "ArrowLeft", "ArrowRight"} THEN letters
    ELSE IF key \in {"Backspace", "Delete"}
    THEN [letters EXCEPT ![index] = " "]
    ELSE IF isLetter(key) /\ UpperChar(key) # UpperChar(letters[index])
    THEN [letters EXCEPT ![index] = UpperChar(key)]
    ELSE letters

\* isReadonly of an edge row: isReadonly || gameStatus !== 'sorted'
EdgeReadonly(status) == status # "sorted"

\* isLocked of an edge row: gameStatus !== 'sorted' && gameStatus !== 'solved'
EdgeLocked(status) == status # "sorted" /\ status # "solved"

\* GameBoard renders the rows: there is a game and it is not solved.
BoardShown == game # NoGame /\ gameStatus(game) # "solved"

\* useEffect(() => { if (gameInfo) initGame(gameInfo) })
StartGame ==
    /\ game = NoGame
    /\ \E gameInfo \in GameInfos :
           \E shuffledWords \in Shuffles(gameInfo.words) :
               game' = initGame(gameInfo, shuffledWords)
    /\ UNCHANGED buildVars
    /\ UNCHANGED serverVars
    /\ UNCHANGED appVars

\* A key is pressed in a letter of a middle row.
KeyDownMiddle ==
    /\ BoardShown
    /\ \E row \in 1..Len(game.words), index \in 1..Len(game.edgeWords[1]),
          key \in Keys :
           game' = replaceWord(game, row,
                       handleKeydown(game.words[row].current, index, key,
                                     FALSE, FALSE))
    /\ UNCHANGED buildVars
    /\ UNCHANGED serverVars
    /\ UNCHANGED appVars

\* A key is pressed in a letter of the top edge row.
KeyDownTopEdge ==
    /\ BoardShown
    /\ \E index \in 1..Len(game.edgeWords[1]), key \in Keys :
           game' = replaceTop(game,
                       handleKeydown(game.currentEdgeWords[1], index, key,
                                     EdgeReadonly(gameStatus(game)),
                                     EdgeLocked(gameStatus(game))))
    /\ UNCHANGED buildVars
    /\ UNCHANGED serverVars
    /\ UNCHANGED appVars

\* A key is pressed in a letter of the bottom edge row.
KeyDownBottomEdge ==
    /\ BoardShown
    /\ \E index \in 1..Len(game.edgeWords[1]), key \in Keys :
           game' = replaceBottom(game,
                       handleKeydown(game.currentEdgeWords[2], index, key,
                                     EdgeReadonly(gameStatus(game)),
                                     EdgeLocked(gameStatus(game))))
    /\ UNCHANGED buildVars
    /\ UNCHANGED serverVars
    /\ UNCHANGED appVars

\* handleDragEnd: a middle row is dropped on another.
DragEnd ==
    /\ BoardShown
    /\ \E fromIndex \in 1..Len(game.words), toIndex \in 1..Len(game.words) :
           /\ fromIndex # toIndex
           /\ game' = reorderWord(game, fromIndex, toIndex)
    /\ UNCHANGED buildVars
    /\ UNCHANGED serverVars
    /\ UNCHANGED appVars

----------------------------------------------------------------------------
(* Manual creation: ManualMode (src/components/ManualMode.tsx) and         *)
(* validateWordLadder (src/utils/dictionaryApi.ts, lines 390-403).         *)

\* useState<string | null>(null)
NoError == [kind |-> "null"]

\* onGameCreated has not been called.
NoGameInfo == [kind |-> "null"]

\* { word: '', hint: '' }
BlankRow == [word |-> <<>>, hint |-> <<>>]

\* setError(message)
FormError(message) == [kind |-> "error", message |-> message]

\* for (let i = 0; i < words.length - 1; i++): the pairs from i on.
RECURSIVE EveryPairDiffersByOne(_, _)
EveryPairDiffersByOne(words, i) ==
    IF i > Len(words) - 1 THEN TRUE
    ELSE IF ~differByOne(words[i], words[i + 1]) THEN FALSE
    ELSE EveryPairDiffersByOne(words, i + 1)

\* validateWordLadder with a fault: only the first pair is compared.
validateWordLadderFirstPair(words) ==
    IF Len(words) < 2 THEN FALSE
    ELSE differByOne(words[1], words[2])

\* validateWordLadder(words)
validateWordLadder(words) ==
    IF Len(words) < 2 THEN FALSE
    ELSE EveryPairDiffersByOne(words, 1)

\* middleWords.map((m) => m.word.toUpperCase()).filter((w) => w), from the
\* i-th row on.
RECURSIVE AllMiddleWords(_, _)
AllMiddleWords(rows, i) ==
    IF i > Len(rows) THEN <<>>
    ELSE IF Len(toUpperCase(rows[i].word)) = 0
    THEN AllMiddleWords(rows, i + 1)
    ELSE <<toUpperCase(rows[i].word)>> \o AllMiddleWords(rows, i + 1)

\* allMiddleWords.every((w, i) => middleWords[i].hint.trim()): the hint is
\* looked up at the word's position in the filtered list.
EveryWordHasHint(allMiddleWords, rows) ==
    \A i \in 1..Len(allMiddleWords) : Len(trim(rows[i].hint)) > 0

\* The gameInfo of handleCreate: each word with middleWords[i].hint, i its
\* position in the filtered list.
MakeGameInfo(formTitle, formEdgeWords, formEdgeHint, allMiddleWords, rows) ==
    [title |-> trim(formTitle),
     words |-> [i \in 1..Len(allMiddleWords) |->
                   [correct |-> allMiddleWords[i], hint |-> rows[i].hint]],
     edgeWords |-> <<toUpperCase(formEdgeWords[1]), toUpperCase(formEdgeWords[2])>>,
     edgeHint |-> formEdgeHint]

\* handleCreate: the error it sets and the gameInfo it hands on, if any.
Create(formTitle, formEdgeWords, formEdgeHint, rows) ==
    LET allMiddleWords == AllMiddleWords(rows, 1)
        wordLength == Len(formEdgeWords[1])
        failed(message) ==
            [error |-> FormError(message), gameInfo |-> NoGameInfo]
    IN  IF Len(trim(formTitle)) = 0
        THEN failed("Please enter a title for your puzzle")
        ELSE IF Len(formEdgeWords[1]) = 0 \/ Len(formEdgeWords[2]) = 0
        THEN failed("Please enter both starting and ending words")
        ELSE IF Len(formEdgeWords[1]) # Len(formEdgeWords[2])
        THEN failed("Starting and ending words must have the same length")
        ELSE IF Len(allMiddleWords) = 0
        THEN failed("Please add at least one middle word")
        ELSE IF \/ \E i \in 1..Len(allMiddleWords) :
                      Len(allMiddleWords[i]) # wordLength
                \/ Len(formEdgeWords[2]) # wordLength
        THEN failed("All words must have the same length")
        ELSE IF ~EveryWordHasHint(allMiddleWords, rows)
        THEN failed("Please provide hints for all middle words")
        ELSE IF Len(trim(formEdgeHint)) = 0
        THEN failed("Please provide a hint for the edge words")
        ELSE IF ~validateWordLadder(<<toUpperCase(formEdgeWords[1])>>
                                      \o allMiddleWords
                                      \o <<toUpperCase(formEdgeWords[2])>>)
        THEN failed("Invalid word ladder! Each word must differ by exactly one letter from the next word.")
        ELSE [error |-> NoError,
              gameInfo |-> MakeGameInfo(formTitle, formEdgeWords, formEdgeHint,
                                        allMiddleWords, rows)]

\* What is typed in the title field.
TitleInputs == { <<" ">>, <<"T">> }

\* What is typed in the field of the starting word.
StartInputs == { <<"a", "a">>, <<"A", "A", "A">> }

\* What is typed in the field of the ending word.
EndInputs == { <<"B", "B">> }

\* What is typed in the field of the edge hint.
EdgeHintInputs == { <<"E">> }

\* What is typed in the word field of a row.
WordInputs == { <<>>, <<"a", "b">>, <<"C", "B">>, <<"A", "B", "B">> }

\* What is typed in the hint field of a row.
HintInputs == { <<>>, <<"a">>, <<"C">> }

\* The form is shown: onGameCreated leaves the page.
FormShown == gameCreated = NoGameInfo

\* onChange of the title field
SetTitle ==
    /\ FormShown
    /\ \E value \in TitleInputs : title' = value
    /\ UNCHANGED <<edgeWords, edgeHint, middleWords, error, gameCreated>>
    /\ UNCHANGED <<buildVars, serverVars, gameVars, publishVars, generateVars,
                   pairVars, hintVars>>

\* onChange of the starting word
SetStartingWord ==
    /\ FormShown
    /\ \E value \in StartInputs :
           edgeWords' = <<toUpperCase(value), edgeWords[2]>>
    /\ UNCHANGED <<title, edgeHint, middleWords, error, gameCreated>>
    /\ UNCHANGED <<buildVars, serverVars, gameVars, publishVars, generateVars,
                   pairVars, hintVars>>

\* onChange of the ending word
SetEndingWord ==
    /\ FormShown
    /\ \E value \in EndInputs :
           edgeWords' = <<edgeWords[1], toUpperCase(value)>>
    /\ UNCHANGED <<title, edgeHint, middleWords, error, gameCreated>>
    /\ UNCHANGED <<buildVars, serverVars, gameVars, publishVars, generateVars,
                   pairVars, hintVars>>

\* onChange of the edge hint
SetEdgeHint ==
    /\ FormShown
    /\ \E value \in EdgeHintInputs : edgeHint' = value
    /\ UNCHANGED <<title, edgeWords, middleWords, error, gameCreated>>
    /\ UNCHANGED <<buildVars, serverVars, gameVars, publishVars, generateVars,
                   pairVars, hintVars>>

\* addMiddleWord
addMiddleWord ==
    /\ FormShown
    /\ Len(middleWords) < MaxRows
    /\ middleWords' = Append(middleWords, BlankRow)
    /\ UNCHANGED <<title, edgeWords, edgeHint, error, gameCreated>>
    /\ UNCHANGED <<buildVars, serverVars, gameVars, publishVars, generateVars,
                   pairVars, hintVars>>

\* removeMiddleWord(index); the button is shown while there are two rows
\* or more.
removeMiddleWord ==
    /\ FormShown
    /\ Len(middleWords) > 1
    /\ \E index \in 1..Len(middleWords) :
           middleWords' = RemoveAt(middleWords, index)
    /\ UNCHANGED <<title, edgeWords, edgeHint, error, gameCreated>>
    /\ UNCHANGED <<buildVars, serverVars, gameVars, publishVars, generateVars,
                   pairVars, hintVars>>

\* updateMiddleWord(index, 'word', value)
updateMiddleWordWord ==
    /\ FormShown
    /\ \E index \in 1..Len(middleWords), value \in WordInputs :
           middleWords' = [middleWords EXCEPT ![index].word = toUpperCase(value)]
    /\ UNCHANGED <<title, edgeWords, edgeHint, error, gameCreated>>
    /\ UNCHANGED <<buildVars, serverVars, gameVars, publishVars, generateVars,
                   pairVars, hintVars>>

\* updateMiddleWord(index, 'hint', value)
updateMiddleWordHint ==
    /\ FormShown
    /\ \E index \in 1..Len(middleWords), value \in HintInputs :
           middleWords' = [middleWords EXCEPT ![index].hint = toUpperCase(value)]
    /\ UNCHANGED <<title, edgeWords, edgeHint, error, gameCreated>>
    /\ UNCHANGED <<buildVars, serverVars, gameVars, publishVars, generateVars,
                   pairVars, hintVars>>

\* handleCreate
handleCreate ==
    /\ FormShown
    /\ LET created == Create(title, edgeWords, edgeHint, middleWords)
       IN  /\ error' = created.error
           /\ gameCreated' = created.gameInfo
    /\ UNCHANGED <<title, edgeWords, edgeHint, middleWords>>
    /\ UNCHANGED <<buildVars, serverVars, gameVars, publishVars, generateVars,
                   pairVars, hintVars>>

----------------------------------------------------------------------------
(* Published puzzles: the puzzle route (src/unnamed/part_007, lines 1-64), *)
(* Home.handleGameCreated (src/unnamed/part_006, lines 21-52) and          *)
(* PlayPage.loadPuzzle (src/unnamed/part_007, lines 208-246).              *)

\* The prototype a {} literal starts with.
ObjectPrototype == [kind |-> "Object.prototype"]

\* What new Date().toISOString() may give.
Times == 1..MaxTime

\* The ids generatePuzzleId hands out, within the model.
GeneratedIds == {"p1", "p2"}

\* The ids a request may carry: a generated id, the name of the accessor
\* of the prototype, and the name of a field of a saved puzzle.
Ids == GeneratedIds \cup {"__proto__", "words"}

\* An id that is falsy: no id, or the empty string.
NoId == ""

\* const { id, gameInfo } = body of a body without the field; what a read
\* of a property that is not there gives.
Missing == [kind |-> "undefined"]

\* { ...gameInfo, createdAt: new Date().toISOString() }
Entry(gameInfo, createdAt) ==
    [kind |-> "entry", gameInfo |-> gameInfo, createdAt |-> createdAt]

\* object[id] of an entry: a field of the puzzle, createdAt, or undefined.
FieldOf(entry, id) ==
    CASE id = "words" -> [kind |-> "value", value |-> entry.gameInfo.words]
      [] id = "edgeWords" -> [kind |-> "value", value |-> entry.gameInfo.edgeWords]
      [] id = "createdAt" -> [kind |-> "value", value |-> entry.createdAt]
      [] OTHER -> Missing

\* puzzleStore[id], read: "__proto__" is the accessor of the prototype, an
\* own property comes first, and what is not an own property is looked up
\* in the prototype.
Get(own, proto, id) ==
    IF id = "__proto__" THEN proto
    ELSE IF id \in DOMAIN own THEN own[id]
    ELSE IF proto = ObjectPrototype THEN Missing
    ELSE FieldOf(proto, id)

\* puzzleStore[id] = entry: through the accessor "__proto__" the entry
\* becomes the prototype, any other id becomes an own property.
Put(own, proto, id, entry) ==
    IF id = "__proto__"
    THEN [own |-> own, proto |-> entry]
    ELSE [own |-> (id :> entry) @@ own, proto |-> proto]

\* NextResponse.json(body, { status })
PuzzleResponse(method, id, status, body) ==
    [method |-> method, id |-> id, status |-> status, body |-> body]

\* No request to the puzzle route was answered.
NoPuzzleResponse == [method |-> "none"]

\* POST of the puzzle route, the body parsed: the response and the store.
PuzzlePost(own, proto, id, gameInfo, createdAt) ==
    IF id = NoId \/ gameInfo = Missing
    THEN [response |-> PuzzleResponse("POST", id, 400, [error |-> "Missing id or gameInfo"]),
          own |-> own, proto |-> proto]
    ELSE LET put == Put(own, proto, id, Entry(gameInfo, createdAt))
         IN  [response |-> PuzzleResponse("POST", id, 200, [success |-> TRUE, id |-> id]),
              own |-> put.own, proto |-> put.proto]

\* GET of the puzzle route: the response.
PuzzleGet(own, proto, id) ==
    IF id = NoId
    THEN PuzzleResponse("GET", id, 400, [error |-> "Missing puzzle id"])
    ELSE LET puzzle == Get(own, proto, id)
         IN  IF puzzle = Missing
             THEN PuzzleResponse("GET", id, 404, [error |-> "Puzzle not found"])
             ELSE PuzzleResponse("GET", id, 200, puzzle)

\* response.ok
Ok(res) == res.status \in 200..299

\* JSON.stringify(info)
JSONstringify(value) == [json |-> value]

\* JSON.parse(text)
JSONparse(text) == text.json

\* `puzzle-${id}`
StorageKey(id) == <<"puzzle-", id>>

\* The browsers: the one of the author and the one of a friend.
Browsers == {"author", "friend"}

\* The play page before loadPuzzle has run.
Loading == [loading |-> TRUE]

\* setGameInfo(gameInfo); setLoading(false)
Shown(gameInfo) == [loading |-> FALSE, kind |-> "puzzle", gameInfo |-> gameInfo]

\* setError(message); setLoading(false)
PageError(message) == [loading |-> FALSE, kind |-> "error", error |-> message]

\* No loadPuzzle has run.
NoLoad == [fetch |-> "none"]

\* A request is answered by the puzzle route: POST /api/puzzle.
PuzzlePOST ==
    /\ \E id \in Ids \cup {NoId}, gameInfo \in GameInfos \cup {Missing},
          createdAt \in Times :
           LET posted == PuzzlePost(puzzleStore, storeProto, id, gameInfo, createdAt)
           IN  /\ puzzleStore' = posted.own
               /\ storeProto' = posted.proto
               /\ puzzleResponse' = posted.response
               /\ saved' = IF posted.response.status = 200
                           THEN (id :> gameInfo) @@ saved
                           ELSE saved
    /\ UNCHANGED <<localStorage, page, loadLog>>
    /\ UNCHANGED <<buildVars, serverVars, gameVars, manualVars, generateVars,
                   pairVars, hintVars>>

\* POST /api/puzzle with a body request.json() rejects.
PuzzlePOSTMalformed ==
    /\ puzzleResponse' =
           PuzzleResponse("POST", NoId, 500, [error |-> "Failed to save puzzle"])
    /\ UNCHANGED <<puzzleStore, storeProto, saved, localStorage, page, loadLog>>
    /\ UNCHANGED <<buildVars, serverVars, gameVars, manualVars, generateVars,
                   pairVars, hintVars>>

\* A request is answered by the puzzle route: GET /api/puzzle?id=...
PuzzleGET ==
    /\ \E id \in Ids \cup {NoId} :
           puzzleResponse' = PuzzleGet(puzzleStore, storeProto, id)
    /\ UNCHANGED <<puzzleStore, storeProto, saved, localStorage, page, loadLog>>
    /\ UNCHANGED <<buildVars, serverVars, gameVars, manualVars, generateVars,
                   pairVars, hintVars>>

\* The server process ends and another starts: the module is loaded anew.
Restart ==
    /\ puzzleStore' = EmptyMap
    /\ storeProto' = ObjectPrototype
    /\ saved' = EmptyMap
    /\ puzzleResponse' = NoPuzzleResponse
    /\ UNCHANGED <<localStorage, page, loadLog>>
    /\ UNCHANGED <<buildVars, serverVars, gameVars, manualVars, generateVars,
                   pairVars, hintVars>>

\* Home.handleGameCreated(info) in the browser of the author: the fetch
\* reaches the route, or it rejects and the catch block runs.
handleGameCreated ==
    /\ \E info \in GameInfos, puzzleId \in GeneratedIds, createdAt \in Times,
          delivered \in BOOLEAN :
           LET posted == PuzzlePost(puzzleStore, storeProto, puzzleId, info, createdAt)
           IN  /\ IF delivered
                  THEN /\ puzzleStore' = posted.own
                       /\ storeProto' = posted.proto
                       /\ puzzleResponse' = posted.response
                       /\ saved' = (puzzleId :> info) @@ saved
                  ELSE UNCHANGED <<puzzleStore, storeProto, puzzleResponse, saved>>
               /\ localStorage' =
                      [localStorage EXCEPT
                          !["author"] = (StorageKey(puzzleId) :> JSONstringify(info)) @@ @]
               /\ page' = [page EXCEPT !["author"] = Loading]
    /\ UNCHANGED loadLog
    /\ UNCHANGED <<buildVars, serverVars, gameVars, manualVars, generateVars,
                   pairVars, hintVars>>

\* PlayPage.loadPuzzle in a browser, for the id of the address: the fetch
\* is answered by the route, or it rejects.
loadPuzzle ==
    /\ \E browser \in Browsers, id \in GeneratedIds, answered \in BOOLEAN :
           LET key == StorageKey(id)
               stored == key \in DOMAIN localStorage[browser]
               answer == PuzzleGet(puzzleStore, storeProto, id)
           IN  /\ IF ~answered
                  THEN /\ page' = [page EXCEPT ![browser] = PageError("Failed to load puzzle")]
                       /\ UNCHANGED puzzleResponse
                  ELSE /\ puzzleResponse' = answer
                       /\ page' = [page EXCEPT ![browser] =
                              IF ~Ok(answer)
                              THEN IF stored
                                   THEN Shown(JSONparse(localStorage[browser][key]))
                                   ELSE PageError("Puzzle not found")
                              ELSE Shown(answer.body)]
               /\ loadLog' = [fetch |-> IF ~answered THEN "failed"
                                        ELSE IF Ok(answer) THEN "ok" ELSE "not ok",
                              browser |-> browser, id |-> id, stored |-> stored]
    /\ UNCHANGED <<puzzleStore, storeProto, saved, localStorage>>
    /\ UNCHANGED <<buildVars, serverVars, gameVars, manualVars, generateVars,
                   pairVars, hintVars>>

----------------------------------------------------------------------------
(* Generated puzzles: generateWordLadderGame (src/utils/dictionaryApi.ts,  *)
(* lines 244-348), calling the route.                                      *)

\* return null
NullGame == [kind |-> "null"]

\* generateWordLadderGame was not called.
NotGenerated == [kind |-> "none"]

\* The fetch rejects: no answer of the route comes back.
Rejected == [kind |-> "rejected"]

\* No fetch was made.
NotFetched == [kind |-> "not fetched"]

\* definitions[word] || aiClues.middleClues[word] || generateHint(word):
\* the hint made of the definition of the word, for the words the
\* dictionary service defines, or `A ${word.length}-letter word`.
HintOf(word, defined) ==
    IF word \in defined
    THEN [kind |-> "definition", word |-> word]
    ELSE [kind |-> "letters", length |-> Len(word)]

\* path.slice(1, -1) with a fault: the slice runs to the end, path.slice(1).
SliceFromSecond(path) ==
    [i \in 1..(Len(path) - 1) |-> path[i + 1]]

\* path.slice(1, -1)
SliceInterior(path) ==
    [i \in 1..(IF Len(path) >= 2 THEN Len(path) - 2 ELSE 0) |-> path[i + 1]]

\* generateWordLadderGame, from the answer to its fetch on: null, or the
\* game made of the path.
GameOfAnswer(answer, defined) ==
    IF answer = Rejected THEN NullGame
    ELSE IF answer.status \notin 200..299 THEN NullGame
    ELSE IF ~answer.success \/ Len(answer.path) < 2 THEN NullGame
    ELSE IF Len(answer.path) < 3 THEN NullGame
    ELSE LET path == answer.path
             middleWords_ == SliceInterior(path)
         IN  [kind |-> "game",
              words |-> [i \in 1..Len(middleWords_) |->
                            [correct |-> middleWords_[i],
                             hint |-> HintOf(middleWords_[i], defined)]],
              edgeWords |-> <<path[1], path[Len(path)]>>,
              edgeHint |-> [kind |-> "edge hint", words |-> <<path[1], path[Len(path)]>>]]

\* The dictionary the generated puzzles are made of: a chain of four words
\* of two letters, and one word of three.
LadderFile ==
    <<HeaderLine>> \o
    << <<"A", "A">>, <<"A", "B">>, <<"B", "B">>, <<"B", "C">>, <<"A", "A", "A">> >>

\* What the player enters as start and end word.
GenerateWords ==
    { <<"A", "A">>, <<"a", "b">>, <<"b", "c">>, <<"C", "C">>, <<"A", "A", " ">> }

\* generateWordLadderGame(startWord, endWord): the fetch is answered by the
\* route, or it rejects.
generateWordLadderGame ==
    /\ \E startWord \in GenerateWords, endWord \in GenerateWords,
          delivered \in BOOLEAN, defined \in SUBSET {<<"A", "B">>} :
           IF Len(startWord) # Len(endWord)
           THEN /\ generated' = NullGame
                /\ generateLog' = [startWord |-> startWord, endWord |-> endWord,
                                   answer |-> NotFetched]
                /\ UNCHANGED dictionaryCache
           ELSE LET start == trim(toUpperCase(startWord))
                    end == trim(toUpperCase(endWord))
                    handled == TryHandle(Body(start, end), dictionaryCache, dataFiles)
                    answer == IF delivered THEN handled.response ELSE Rejected
                IN  /\ generated' = GameOfAnswer(answer, defined)
                    /\ generateLog' = [startWord |-> startWord, endWord |-> endWord,
                                       answer |-> answer]
                    /\ dictionaryCache' = IF delivered THEN handled.cache
                                          ELSE dictionaryCache
    /\ UNCHANGED <<request, response, calls, searchLog, filesSeen, handlers,
                   storageReads>>
    /\ UNCHANGED <<buildVars, gameVars, manualVars, publishVars, pairVars,
                   hintVars>>

----------------------------------------------------------------------------
(* differByOne (src/utils/wordLadder.ts, lines 4-17), applied to a pair of *)
(* strings.                                                                *)

\* The characters of the strings compared.
PairLetters == {"A", "a", "B", "b"}

\* The strings compared: every string of MaxLen letters or fewer.
PairStrings == SeqsUpTo(PairLetters, MaxLen)

\* differByOne was not called.
NoVerdict == [kind |-> "none"]

\* differByOne(str1, str2) and differByOne(str2, str1) are called.
Compare ==
    /\ verdict = NoVerdict
    /\ verdict' = [kind |-> "verdict",
                   forward |-> differByOne(pair[1], pair[2]),
                   backward |-> differByOne(pair[2], pair[1])]
    /\ UNCHANGED pair
    /\ UNCHANGED <<buildVars, serverVars, gameVars, manualVars, publishVars,
                   generateVars, hintVars>>

----------------------------------------------------------------------------
(* Hints: GameBoard's handleHint, handleRevealRow and the cooldown timers  *)
(* (src/components/GameBoard.tsx, lines 69-82 and 119-191).                *)

\* setHintCooldown(10)
HintCooldownSeconds == 10

\* setRevealCooldown(20)
RevealCooldownSeconds == 20

\* focusedIndex === null
NoFocus == -1

\* No setTimeout of handleHint is waiting.
NoWrite == [kind |-> "none"]

\* No hint wrote a letter.
NoHintWrite == [kind |-> "none"]

\* The first position of the row that is blank or holds a letter that is
\* not the correct one, from i on; the first position of all when there is
\* none.
RECURSIVE TargetIndex(_, _, _)
TargetIndex(currentLetters, correctWord, i) ==
    IF i > Len(correctWord) THEN 1
    ELSE IF currentLetters[i] = " " \/ currentLetters[i] # correctWord[i] THEN i
    ELSE TargetIndex(currentLetters, correctWord, i + 1)

\* isCompletelyWrong: every letter is filled and every letter is wrong.
isCompletelyWrong(currentLetters, correctWord) ==
    /\ \A i \in 1..Len(currentLetters) : currentLetters[i] # " "
    /\ \A i \in 1..Len(currentLetters) : currentLetters[i] # correctWord[i]

\* ' '.repeat(correctWord.length) with newLetters[0] = correctWord[0]
FirstLetterOnly(correctWord) ==
    [i \in 1..Len(correctWord) |-> IF i = 1 THEN correctWord[1] ELSE " "]

\* The guard of a hint with a fault: the cooldown is not looked at.
HintAllowedInCooldown(g, cooldown, focused) ==
    /\ g # NoGame
    /\ focused # NoFocus
    /\ focused # 0
    /\ focused # Len(g.words) + 1

\* The guard of handleHint and of handleRevealRow: there is a game, the
\* cooldown is over and a middle row is focused.
HintAllowed(g, cooldown, focused) ==
    /\ g # NoGame
    /\ ~(cooldown > 0)
    /\ focused # NoFocus
    /\ focused # 0
    /\ focused # Len(g.words) + 1

\* The buttons Hint and Reveal row are not disabled by the status.
ButtonsEnabled == gameStatus(game) \notin {"sorted", "solved"}

\* A row gets the focus: a click on it, ArrowUp and ArrowDown, or one of
\* the timers that move the focus.
FocusRow ==
    /\ BoardShown
    /\ \E index \in 0..(Len(game.words) + 1) : focusedIndex' = index
    /\ UNCHANGED <<game, hintCooldown, revealCooldown, pendingWrite, lastHintWrite>>
    /\ UNCHANGED <<buildVars, serverVars, manualVars, publishVars, generateVars,
                   pairVars>>

\* A key is pressed in a letter of the middle row that has the focus.
KeyDownFocused ==
    /\ BoardShown
    /\ focusedIndex \in 1..Len(game.words)
    /\ \E index \in 1..Len(game.edgeWords[1]), key \in Keys :
           game' = replaceWord(game, focusedIndex,
                       handleKeydown(game.words[focusedIndex].current, index, key,
                                     FALSE, FALSE))
    /\ UNCHANGED <<focusedIndex, hintCooldown, revealCooldown, pendingWrite,
                   lastHintWrite>>
    /\ UNCHANGED <<buildVars, serverVars, manualVars, publishVars, generateVars,
                   pairVars>>

\* handleHint: a click on Hint.
handleHint ==
    /\ BoardShown
    /\ ButtonsEnabled
    /\ HintAllowed(game, hintCooldown, focusedIndex)
    /\ LET wordIndex == focusedIndex
           correctWord == game.words[wordIndex].correct
           currentLetters == game.words[wordIndex].current
           targetIndex == TargetIndex(currentLetters, correctWord, 1)
       IN  IF isCompletelyWrong(currentLetters, correctWord)
           THEN /\ game' = replaceWord(game, wordIndex, EmptyString(Len(correctWord)))
                /\ pendingWrite' = [kind |-> "write", wordIndex |-> wordIndex,
                                    correctWord |-> correctWord]
                /\ UNCHANGED lastHintWrite
           ELSE /\ game' = replaceWord(game, wordIndex,
                              [currentLetters EXCEPT ![targetIndex] = correctWord[targetIndex]])
                /\ lastHintWrite' = [kind |-> "write",
                                     rowWord |-> game.words[wordIndex].correct,
                                     at |-> targetIndex,
                                     letter |-> correctWord[targetIndex]]
                /\ UNCHANGED pendingWrite
    /\ hintCooldown' = HintCooldownSeconds
    /\ UNCHANGED <<focusedIndex, revealCooldown>>
    /\ UNCHANGED <<buildVars, serverVars, manualVars, publishVars, generateVars,
                   pairVars>>

\* The setTimeout of handleHint runs, 300 ms after the row was cleared.
DelayedHintWrite ==
    /\ pendingWrite # NoWrite
    /\ game # NoGame
    /\ game' = replaceWord(game, pendingWrite.wordIndex,
                           FirstLetterOnly(pendingWrite.correctWord))
    /\ lastHintWrite' = [kind |-> "write",
                         rowWord |-> game.words[pendingWrite.wordIndex].correct,
                         at |-> 1,
                         letter |-> pendingWrite.correctWord[1]]
    /\ pendingWrite' = NoWrite
    /\ UNCHANGED <<focusedIndex, hintCooldown, revealCooldown>>
    /\ UNCHANGED <<buildVars, serverVars, manualVars, publishVars, generateVars,
                   pairVars>>

\* handleRevealRow: a click on Reveal row.
handleRevealRow ==
    /\ BoardShown
    /\ ButtonsEnabled
    /\ HintAllowed(game, revealCooldown, focusedIndex)
    /\ game' = replaceWord(game, focusedIndex, game.words[focusedIndex].correct)
    /\ revealCooldown' = RevealCooldownSeconds
    /\ UNCHANGED <<focusedIndex, hintCooldown, pendingWrite, lastHintWrite>>
    /\ UNCHANGED <<buildVars, serverVars, manualVars, publishVars, generateVars,
                   pairVars>>

\* The timer of the hint cooldown runs, a second after it was set; the
\* timer of 300 ms, set before it, has run by then.
TickHint ==
    /\ hintCooldown > 0
    /\ pendingWrite = NoWrite
    /\ hintCooldown' = hintCooldown - 1
    /\ UNCHANGED <<game, focusedIndex, revealCooldown, pendingWrite, lastHintWrite>>
    /\ UNCHANGED <<buildVars, serverVars, manualVars, publishVars, generateVars,
                   pairVars>>

\* The timer of the reveal cooldown runs, a second after it was set.
TickReveal ==
    /\ revealCooldown > 0
    /\ revealCooldown' = revealCooldown - 1
    /\ UNCHANGED <<game, focusedIndex, hintCooldown, pendingWrite, lastHintWrite>>
    /\ UNCHANGED <<buildVars, serverVars, manualVars, publishVars, generateVars,
                   pairVars>>

----------------------------------------------------------------------------
(* The initial state and the specifications. *)

InitButPair ==
    /\ pc = "read"
    /\ wordsByLength = EmptyMap
    /\ lengthIdx = 1
    /\ dataFiles = EmptyMap
    /\ dictionaryCache = EmptyMap
    /\ request = NoRequest
    /\ response = NoResponse
    /\ calls = {}
    /\ searchLog = NoSearch
    /\ filesSeen = EmptyMap
    /\ handlers = [h \in Handlers |-> Idle]
    /\ storageReads = EmptyMap
    /\ game = NoGame
    /\ title = <<>>
    /\ edgeWords = << <<>>, <<>> >>
    /\ edgeHint = <<>>
    /\ middleWords = <<BlankRow>>
    /\ error = NoError
    /\ gameCreated = NoGameInfo
    /\ puzzleStore = EmptyMap
    /\ storeProto = ObjectPrototype
    /\ saved = EmptyMap
    /\ puzzleResponse = NoPuzzleResponse
    /\ localStorage = [browser \in Browsers |-> EmptyMap]
    /\ page = [browser \in Browsers |-> Loading]
    /\ loadLog = NoLoad
    /\ generated = NotGenerated
    /\ generateLog = [answer |-> NotFetched]
    /\ verdict = NoVerdict
    /\ focusedIndex = NoFocus
    /\ hintCooldown = 0
    /\ revealCooldown = 0
    /\ pendingWrite = NoWrite
    /\ lastHintWrite = NoHintWrite

InitRest ==
    /\ InitButPair
    /\ pair = << <<>>, <<>> >>

InitBuild ==
    /\ dictionaryFile \in RawFiles
    /\ InitRest

Preprocess ==
    \/ ReadDictionary
    \/ ReadFails
    \/ SkipLength
    \/ ProcessLength
    \/ WriteFails
    \/ FinishPreprocess

\* The preprocessing script alone, over every small dictionary.txt.
SpecBuild == InitBuild /\ [][Preprocess]_vars

Init ==
    /\ dictionaryFile \in FixtureFiles
    /\ InitRest

Serve == ReceiveRequest \/ POST \/ SendResponse

Next == Preprocess \/ Serve

\* The preprocessing script and the route, in any interleaving.
Spec == Init /\ [][Next]_vars

InitConcurrent ==
    /\ dictionaryFile = <<HeaderLine>> \o Fixture
    /\ InitRest

ServeConcurrent == \E h \in Handlers : Arrive(h) \/ Resume(h) \/ Reply(h)

NextConcurrent == Preprocess \/ ServeConcurrent

\* The preprocessing script of the whole fixture and several handlers of
\* the route at once, in any interleaving.
SpecConcurrent == InitConcurrent /\ [][NextConcurrent]_vars

InitBoard ==
    /\ dictionaryFile = <<HeaderLine>>
    /\ InitRest

Play ==
    \/ StartGame
    \/ KeyDownMiddle
    \/ KeyDownTopEdge
    \/ KeyDownBottomEdge
    \/ DragEnd

\* One game on the board, from initGame on.
SpecGame == InitBoard /\ [][Play]_vars
FillForm ==
    \/ SetTitle
    \/ SetStartingWord
    \/ SetEndingWord
    \/ SetEdgeHint
    \/ addMiddleWord
    \/ removeMiddleWord
    \/ updateMiddleWordWord
    \/ updateMiddleWordHint
    \/ handleCreate

\* The form of ManualMode, from its first render on.
SpecManual == InitBoard /\ [][FillForm]_vars
ServePuzzles ==
    \/ PuzzlePOST
    \/ PuzzlePOSTMalformed
    \/ PuzzleGET
    \/ Restart

\* The puzzle route, answering one request after the other.
SpecStore == InitBoard /\ [][ServePuzzles]_vars

Publish ==
    \/ handleGameCreated
    \/ loadPuzzle
    \/ Restart

\* Puzzles published from the home page and opened on the play page.
SpecPublish == InitBoard /\ [][Publish]_vars
InitGenerate ==
    /\ dictionaryFile = LadderFile
    /\ InitRest

\* The preprocessing script, and puzzles generated through the route.
SpecGenerate == InitGenerate /\ [][Preprocess \/ generateWordLadderGame]_vars
InitPair ==
    /\ dictionaryFile = <<HeaderLine>>
    /\ InitButPair
    /\ \E str1 \in PairStrings, str2 \in PairStrings : pair = <<str1, str2>>

\* differByOne on every pair of short strings.
SpecPair == InitPair /\ [][Compare]_vars
PlayWithHints ==
    \/ StartGame
    \/ FocusRow
    \/ KeyDownFocused
    \/ DragEnd
    \/ handleHint
    \/ DelayedHintWrite
    \/ TickHint

\* The middle rows of a game: typing, dragging and hints.
SpecHints == InitBoard /\ [][PlayWithHints]_vars

Cooldowns ==
    \/ StartGame
    \/ FocusRow
    \/ handleHint
    \/ handleRevealRow
    \/ TickHint
    \/ TickReveal

\* Hints and revealed rows, and the timers of their cooldowns, each of
\* which runs a second after it was set.
SpecCooldown ==
    InitBoard /\ [][Cooldowns]_vars /\ WF_vars(TickHint) /\ WF_vars(TickReveal)






----------------------------------------------------------------------------
(* What the claims are stated with: the one-letter relation, and distance  *)
(* and reachability in a graph by growing sets of words, both defined      *)
(* apart from the loops of the script and of the route.                    *)

OneLetterApart(a, b) ==
    /\ Len(a) = Len(b)
    /\ Cardinality({i \in 1..Len(a) : a[i] # b[i]}) = 1

\* The words one step from a set of words of the graph.
StepFrom(graph, S) ==
    UNION {Range(graph[w]) : w \in S \cap DOMAIN graph}

\* The number of steps from frontier (at distance d) to b, -1 if there is
\* no path.
RECURSIVE DistanceFrom(_, _, _, _, _)
DistanceFrom(graph, frontier, seen, b, d) ==
    IF b \in frontier THEN d
    ELSE IF frontier = {} THEN -1
    ELSE DistanceFrom(graph, StepFrom(graph, frontier) \ seen,
                      seen \cup StepFrom(graph, frontier), b, d + 1)

Distance(graph, a, b) == DistanceFrom(graph, {a}, {a}, b, 0)

Connected(graph, a, b) == Distance(graph, a, b) >= 0

\* The artifacts written so far.
Artifacts ==
    {dataFiles[length] :
        length \in {l \in DOMAIN dataFiles : dataFiles[l] # Truncated}}

\* How often a word occurs in the groups of an artifact.
Occurrences(groups, w) ==
    Cardinality(UNION {{<<g, i>> : i \in {k \in 1..Len(groups[g]) : groups[g][k] = w}} :
                         g \in 1..Len(groups)})

\* A request has been handled and its response not yet sent.
Handled == request # NoRequest /\ response # NoResponse

\* The two words of the request as the handler normalizes them.
ReqStart == trim(toUpperCase(request.startWord))
ReqEnd == trim(toUpperCase(request.endWord))

\* The request carries a body of two strings, and neither is empty.
BothGiven ==
    /\ request.kind = "body"
    /\ Len(request.startWord) > 0
    /\ Len(request.endWord) > 0

\* The artifact of the request's word length was on disk, whole, when the
\* handler ran.
HasArtifact ==
    /\ Len(ReqStart) \in DOMAIN filesSeen
    /\ filesSeen[Len(ReqStart)] # Truncated

\* That artifact.
ReqArtifact == filesSeen[Len(ReqStart)]

\* The request passed the checks of the lengths and its artifact exists.
Loaded ==
    /\ Handled /\ BothGiven
    /\ Len(ReqStart) = Len(ReqEnd)
    /\ Len(ReqStart) >= 2 /\ Len(ReqStart) <= 15
    /\ HasArtifact

\* Both words of a loaded request are words of the artifact.
BothInDictionary ==
    /\ Loaded
    /\ ReqStart \in Range(ReqArtifact.words)
    /\ ReqEnd \in Range(ReqArtifact.words)

----------------------------------------------------------------------------
(* The claims. *)

\* C1: for every pair of distinct words that are connected in the
\* artifact's graph, the resolver answers with a path whose number of words
\* is the graph distance between them plus one.
C1_ShortestPath ==
    (BothInDictionary /\ ReqStart # ReqEnd
       /\ Connected(ReqArtifact.graph, ReqStart, ReqEnd))
    => /\ response.kind = "success"
       /\ Len(response.path) = Distance(ReqArtifact.graph, ReqStart, ReqEnd) + 1

\* A path of three words was returned from AA to BC in the graph of all
\* five two-letter words, where a path of four words joins them too.
C1_Witness ==
    /\ BothInDictionary
    /\ ReqStart = <<"A", "A">>
    /\ ReqEnd = <<"B", "C">>
    /\ response.kind = "success"
    /\ Len(response.path) = 3
    /\ Cardinality(Range(ReqArtifact.words)) = 5

\* C2: every path returned as a success starts with the normalized start
\* word, ends with the normalized end word, consists of words of the
\* artifact, and each consecutive pair differs in exactly one position.
C2_PathValid ==
    (Handled /\ response.kind = "success")
    => LET path == response.path
       IN  /\ Len(path) >= 1
           /\ path[1] = ReqStart
           /\ path[Len(path)] = ReqEnd
           /\ \A i \in 1..Len(path) : path[i] \in Range(ReqArtifact.words)
           /\ \A i \in 1..(Len(path) - 1) : OneLetterApart(path[i], path[i + 1])

\* A path of three words was returned for a request in lower case, its end
\* word padded.
C2_Witness ==
    /\ Handled
    /\ response.kind = "success"
    /\ Len(response.path) = 3
    /\ request.startWord = <<"a", "b">>

\* C3: in every artifact written, for all words A and B of the word list, B
\* is a neighbor of A exactly if A and B have equal length and differ in
\* exactly one position, also when the word list repeats a word.
C3_AdjacencyCorrect ==
    \A data \in Artifacts :
        \A a \in Range(data.words), b \in Range(data.words) :
            /\ a \in DOMAIN data.graph
            /\ b \in Range(data.graph[a]) <=> OneLetterApart(a, b)

\* An artifact whose word list repeats a word that has a neighbor.
C3_Witness ==
    \E data \in Artifacts :
        \E i \in 1..Len(data.words), j \in 1..Len(data.words) :
            /\ i # j
            /\ data.words[i] = data.words[j]
            /\ data.graph[data.words[i]] # <<>>

\* C4: the graph of every artifact is symmetric: B is a neighbor of A
\* exactly if A is a neighbor of B.
C4_AdjacencySymmetric ==
    \A data \in Artifacts :
        \A a \in Range(data.words), b \in Range(data.words) :
            b \in Range(data.graph[a]) <=> a \in Range(data.graph[b])

\* An artifact in which a word has two neighbors.
C4_Witness ==
    \E data \in Artifacts :
        \E a \in Range(data.words) : Len(data.graph[a]) = 2

\* C5: the groups of every artifact partition its word set: every word of
\* the word list occurs exactly once in all the groups together, and the
\* groups hold no other word.
C5_GroupsPartition ==
    \A data \in Artifacts :
        /\ \A w \in Range(data.words) : Occurrences(data.groups, w) = 1
        /\ UNION {Range(data.groups[g]) : g \in 1..Len(data.groups)}
             = Range(data.words)

\* An artifact with two groups, one of them of two words, whose word list
\* repeats a word.
C5_Witness ==
    \E data \in Artifacts :
        /\ Len(data.groups) = 2
        /\ Len(data.groups[1]) = 2
        /\ Len(data.words) > Cardinality(Range(data.words))

\* C6: two words of an artifact are in the same group (areInSameGroup)
\* exactly if a path joins them in the artifact's graph.
C6_SameGroupIffConnected ==
    \A data \in Artifacts :
        \A a \in Range(data.words), b \in Range(data.words) :
            areInSameGroup(a, b, data.groups) <=> Connected(data.graph, a, b)

\* An artifact with two words in one group that are not neighbors, and a
\* word outside that group.
C6_Witness ==
    \E data \in Artifacts :
        \E a \in Range(data.words), b \in Range(data.words) :
            /\ areInSameGroup(a, b, data.groups)
            /\ a # b
            /\ b \notin Range(data.graph[a])
            /\ Len(data.groups) > 1

\* C7: when start equals end after normalization and the word is in the
\* dictionary of its length, the route answers with success and the path
\* of that one word.
C7_IdentitySucceeds ==
    (BothInDictionary /\ ReqStart = ReqEnd)
    => /\ response.kind = "success"
       /\ response.path = <<ReqStart>>

\* C8: the first of the five validations that fails decides the failure: a
\* length mismatch, then a length out of range, then no artifact, then a
\* word not in the dictionary, then words of different components; a
\* request that fails one of the first two loads no dictionary, and one
\* that fails any of the five starts no search.
C8_ValidationOrder ==
    (Handled /\ BothGiven)
    => IF Len(ReqStart) # Len(ReqEnd)
       THEN response = Failure(400, ErrLengthMismatch) /\ calls = {}
       ELSE IF Len(ReqStart) < 2 \/ Len(ReqStart) > 15
       THEN response = Failure(400, ErrLengthRange) /\ calls = {}
       ELSE IF ~HasArtifact
       THEN /\ response = Failure(404, ErrNoDictionary)
            /\ "loadDictionary" \in calls
            /\ "findShortestPath" \notin calls
       ELSE IF ~BothInDictionary
       THEN /\ response = Failure(400, ErrNotInDictionary)
            /\ "findShortestPath" \notin calls
       ELSE IF ~Connected(ReqArtifact.graph, ReqStart, ReqEnd)
       THEN /\ response = Failure(400, ErrNotConnected)
            /\ "findShortestPath" \notin calls
       ELSE /\ response \notin {Failure(400, ErrLengthMismatch),
                                Failure(400, ErrLengthRange),
                                Failure(404, ErrNoDictionary),
                                Failure(400, ErrNotInDictionary),
                                Failure(400, ErrNotConnected)}
            /\ "findShortestPath" \in calls

\* A request of one letter against two letters (the lengths differ and the
\* first is out of range) was answered without loading a dictionary, while
\* the artifact for two-letter words is on disk.
C8_Witness ==
    /\ Handled
    /\ request = Body(Letters(1), Letters(2))
    /\ response = Failure(400, ErrLengthMismatch)
    /\ 2 \in DOMAIN filesSeen

\* C9: a request whose two trimmed words have the same length L fails with
\* the length-out-of-range error (a bad-input response) exactly if L < 2 or
\* L > 15.
C9_LengthRange ==
    (Handled /\ BothGiven /\ Len(ReqStart) = Len(ReqEnd))
    => (response = Failure(400, ErrLengthRange)
          <=> (Len(ReqStart) < 2 \/ Len(ReqStart) > 15))

\* Two words of fifteen letters passed the check of the range.
C9_Witness ==
    /\ Handled /\ BothGiven
    /\ Len(ReqStart) = 15
    /\ Len(ReqEnd) = 15
    /\ response = Failure(404, ErrNoDictionary)

\* C10: when both words are in the dictionary but no path joins them, the
\* route answers with the not-connected failure and findShortestPath is not
\* called for that request.
C10_NotConnectedSkipsSearch ==
    (BothInDictionary /\ ~Connected(ReqArtifact.graph, ReqStart, ReqEnd))
    => /\ response = Failure(400, ErrNotConnected)
       /\ "findShortestPath" \notin calls

\* Two words of the dictionary in different groups were asked for, and the
\* groups were compared.
C10_Witness ==
    /\ BothInDictionary
    /\ ~Connected(ReqArtifact.graph, ReqStart, ReqEnd)
    /\ "areInSameGroup" \in calls

\* The failures the handler words itself.
DescriptiveErrors ==
    {ErrMissing, ErrLengthMismatch, ErrLengthRange, ErrNoDictionary,
     ErrNotInDictionary, ErrNotConnected, ErrNoPath}

\* C11: every call of POST ends with a response value, a success or a
\* failure with a status and a message, whatever the request and whatever
\* the state of the data files: no exception leaves the handler.  A body of
\* two strings is never answered with the generic internal error: its
\* failure is one of the handler's own messages, and words of the
\* dictionary that no path joins get the not-connected message.
C11_FailuresAreValues ==
    Handled
    => /\ response.kind \in {"success", "error"}
       /\ response.kind = "error"
            => /\ response.status \in {400, 404, 500}
               /\ response.error \in DescriptiveErrors \cup {ErrInternal}
       /\ request.kind = "body"
            => /\ response # Failure(500, ErrInternal)
               /\ response.kind = "error" => response.error \in DescriptiveErrors
       /\ (BothInDictionary /\ ~Connected(ReqArtifact.graph, ReqStart, ReqEnd))
            => response.error = ErrNotConnected

\* A request whose body is no JSON text was answered with the response 500,
\* while a data file cut short is on disk.
C11_Witness ==
    /\ Handled
    /\ request = MalformedBody
    /\ response = Failure(500, ErrInternal)
    /\ \E length \in DOMAIN filesSeen : filesSeen[length] = Truncated

\* The data file of the request's word length was on disk when the handler
\* ran, and could not be parsed.
ArtifactUnreadable ==
    /\ Handled /\ BothGiven
    /\ Len(ReqStart) = Len(ReqEnd)
    /\ Len(ReqStart) \in DOMAIN filesSeen
    /\ filesSeen[Len(ReqStart)] = Truncated

\* C12: a data file that exists but cannot be read or parsed is told apart
\* from a data file that does not exist: the request is not answered with
\* the response of the absent dictionary.
C12_UnreadableIsNotAbsent ==
    ArtifactUnreadable => response # Failure(404, ErrNoDictionary)

\* C17: a success response is { success: true, path, length } with length
\* the number of words of the path, and two words of the dictionary that
\* are neighbors get the path of the two, start then end, with length 2.
C17_SuccessShape ==
    /\ (Handled /\ response.kind = "success")
         => /\ response.success = TRUE
            /\ response.status = 200
            /\ response.length = Len(response.path)
    /\ (BothInDictionary /\ OneLetterApart(ReqStart, ReqEnd))
         => /\ response.kind = "success"
            /\ response.path = <<ReqStart, ReqEnd>>
            /\ response.length = 2

\* The neighbors AB and BB were asked for and answered with the path of
\* the two.
C17_Witness ==
    /\ BothInDictionary
    /\ request = Body(<<"A", "B">>, <<"B", "B">>)
    /\ response.path = <<ReqStart, ReqEnd>>
    /\ response.kind = "success"
    /\ response.length = 2

\* C18: in a search no word is enqueued twice, every word enqueued is a
\* word of the artifact, and the search ends after it dequeued at most as
\* many entries as the artifact has words.
C18_SearchBounded ==
    (Handled /\ "findShortestPath" \in calls)
    => /\ \A i \in 1..Len(searchLog.enqueued), j \in 1..Len(searchLog.enqueued) :
              i # j => searchLog.enqueued[i] # searchLog.enqueued[j]
       /\ Range(searchLog.enqueued) \subseteq Range(ReqArtifact.words)
       /\ searchLog.dequeued <= Cardinality(Range(ReqArtifact.words))

\* A search from AA to BC in the graph of all five two-letter words: it
\* met BB from BA and again from AB, and enqueued it once.
C18_Witness ==
    /\ Handled
    /\ "findShortestPath" \in calls
    /\ ReqStart = <<"A", "A">>
    /\ ReqEnd = <<"B", "C">>
    /\ Cardinality(Range(ReqArtifact.words)) = 5
    /\ searchLog.dequeued >= 3
    /\ Len(searchLog.enqueued) >= 4

----------------------------------------------------------------------------
(* The claims about the cache and about several requests at once. *)

\* A handler has run to its return statement.
Answered(h) == handlers[h].pc = "answered"

\* The word length a handler's request asks for.
LengthAsked(h) == Len(trim(handlers[h].request.startWord))

\* The data file of that length as it was when the handler ran.
ArtifactSeen(h) ==
    IF LengthAsked(h) \in DOMAIN handlers[h].files
    THEN handlers[h].files[LengthAsked(h)]
    ELSE [absent |-> TRUE]

\* Two characters that are the same letter in either case.
SameLetter(c, d) ==
    \/ c = d
    \/ <<c, d>> \in {<<"a", "A">>, <<"A", "a">>, <<"b", "B">>, <<"B", "b">>,
                     <<"c", "C">>, <<"C", "c">>}

\* Two strings that differ in letter case at most.
SameUpToCase(a, b) ==
    /\ Len(a) = Len(b)
    /\ \A i \in 1..Len(a) : SameLetter(a[i], b[i])

\* C13: the cache only grows: no step removes or replaces an entry, and a
\* handler that runs while the artifact of its word length is cached calls
\* neither existsSync nor readFileSync and answers from the cached artifact.
C13_CacheOnlyGrows ==
    [][ /\ \A length \in DOMAIN dictionaryCache :
              /\ length \in DOMAIN dictionaryCache'
              /\ dictionaryCache'[length] = dictionaryCache[length]
        /\ \A h \in Handlers :
              (/\ handlers[h].pc = "json"
               /\ handlers'[h].pc = "answered"
               /\ LengthAsked(h) \in DOMAIN dictionaryCache)
              => /\ "loadDictionary" \in handlers'[h].calls
                 /\ handlers'[h].calls \cap {"existsSync", "readFileSync"} = {}
                 /\ handlers'[h].response =
                       Resolve(trim(toUpperCase(handlers[h].request.startWord)),
                               trim(toUpperCase(handlers[h].request.endWord)),
                               dictionaryCache[LengthAsked(h)]).response ]_vars

\* The artifacts of both word lengths are cached, and a handler answered
\* with a path without reading storage.
C13_Witness ==
    /\ DOMAIN dictionaryCache = {2, 3}
    /\ \E h \in Handlers :
          /\ Answered(h)
          /\ handlers[h].response.kind = "success"
          /\ "loadDictionary" \in handlers[h].calls
          /\ "readFileSync" \notin handlers[h].calls

\* C14: however the handlers of requests for one word length interleave,
\* the data file of that length is read, parsed and cached at most once,
\* and every cache entry is the whole artifact of its data file.
C14_LoadedAtMostOnce ==
    /\ \A length \in DOMAIN storageReads : storageReads[length] <= 1
    /\ \A length \in DOMAIN dictionaryCache :
          /\ length \in DOMAIN dataFiles
          /\ dataFiles[length] # Truncated
          /\ dictionaryCache[length] = dataFiles[length]
          /\ length \in DOMAIN storageReads
    /\ \A h \in Handlers :
          (Answered(h) /\ handlers[h].response.kind = "success")
          => Range(handlers[h].response.path)
                \subseteq Range(dataFiles[LengthAsked(h)].words)

\* Two handlers for two-letter words were in flight together and both
\* answered with a path: one read the data file, the other did not.
C14_Witness ==
    \E h1 \in Handlers, h2 \in Handlers :
        /\ Answered(h1) /\ Answered(h2)
        /\ LengthAsked(h1) = 2 /\ LengthAsked(h2) = 2
        /\ handlers[h1].response.kind = "success"
        /\ handlers[h2].response.kind = "success"
        /\ "readFileSync" \in handlers[h1].calls
        /\ "readFileSync" \notin handlers[h2].calls
        /\ storageReads[2] = 1

\* C15: two handlers given the same two words while the data file of that
\* length is the same answer alike, with the identical path, whatever was
\* served in between and whether the artifact came from the cache or from
\* storage.
C15_Deterministic ==
    \A h1 \in Handlers, h2 \in Handlers :
        (/\ Answered(h1) /\ Answered(h2)
         /\ handlers[h1].request = handlers[h2].request
         /\ ArtifactSeen(h1) = ArtifactSeen(h2))
        => handlers[h1].response = handlers[h2].response

\* BA to AB, which two shortest paths join, was answered twice with one
\* path: once from storage, once from the cache.
C15_Witness ==
    \E h1 \in Handlers, h2 \in Handlers :
        /\ Answered(h1) /\ Answered(h2)
        /\ handlers[h1].request = Body(<<"B", "A">>, <<"A", "B">>)
        /\ handlers[h2].request = handlers[h1].request
        /\ handlers[h1].response.kind = "success"
        /\ handlers[h2].response = handlers[h1].response
        /\ "readFileSync" \in handlers[h1].calls
        /\ "readFileSync" \notin handlers[h2].calls

\* C16: two requests whose words differ in letter case at most are answered
\* alike while the data file of that length is the same, and every word of
\* a path returned is in upper case.
C16_CaseInsensitive ==
    /\ \A h1 \in Handlers, h2 \in Handlers :
          (/\ Answered(h1) /\ Answered(h2)
           /\ SameUpToCase(handlers[h1].request.startWord,
                           handlers[h2].request.startWord)
           /\ SameUpToCase(handlers[h1].request.endWord,
                           handlers[h2].request.endWord)
           /\ ArtifactSeen(h1) = ArtifactSeen(h2))
          => handlers[h1].response = handlers[h2].response
    /\ \A h \in Handlers :
          (Answered(h) /\ handlers[h].response.kind = "success")
          => \A i \in 1..Len(handlers[h].response.path) :
                Range(handlers[h].response.path[i]) \subseteq UpperLetters

\* BA to AB and ba to Ab were both answered with the path BA, AA, AB.
C16_Witness ==
    \E h1 \in Handlers, h2 \in Handlers :
        /\ Answered(h1) /\ Answered(h2)
        /\ handlers[h1].request = Body(<<"B", "A">>, <<"A", "B">>)
        /\ handlers[h2].request = Body(<<"b", "a">>, <<"A", "b">>)
        /\ handlers[h1].response.kind = "success"
        /\ handlers[h2].response.path = <<<<"B", "A">>, <<"A", "A">>, <<"A", "B">>>>

----------------------------------------------------------------------------
(* The claim about a build that fails. *)

\* C19: when the build of a word length fails, at reading dictionary.txt or
\* while the artifact is written, no part of an artifact is to be seen: at
\* every moment each data file is absent or whole.
C19_NoPartialArtifact ==
    \A length \in DOMAIN dataFiles : dataFiles[length] # Truncated

----------------------------------------------------------------------------
(* The claim about the edge rows of the board. *)

\* Every middle row holds its correct word, in either case.
MiddleRowsCorrect(g) ==
    \A i \in 1..Len(g.words) :
        SameUpToCase(g.words[i].current, g.words[i].correct)

\* Every two consecutive middle rows are one letter apart.
MiddleRowsInOrder(g) ==
    \A i \in 1..(Len(g.words) - 1) :
        OneLetterApart(g.words[i].current, g.words[i + 1].current)

\* C20: a step of a game changes an edge row only if the status before it
\* is 'sorted', and then every middle row holds its correct word and every
\* two consecutive middle rows are one letter apart; in every other status
\* no key changes an edge row.
C20_EdgeRowsLocked ==
    [][ (game # NoGame /\ game'.currentEdgeWords # game.currentEdgeWords)
        => /\ gameStatus(game) = "sorted"
           /\ MiddleRowsCorrect(game)
           /\ MiddleRowsInOrder(game) ]_vars

\* A letter was typed in the top edge row, and a middle row was changed
\* after it: the status is 'error' again.
C20_Witness ==
    /\ game # NoGame
    /\ game.currentEdgeWords[1] = <<"A", " ">>
    /\ gameStatus(game) = "error"

----------------------------------------------------------------------------
(* The claims about manual creation. *)

\* The rows of the form whose word field is not blank, in row order.
RowsWithWord ==
    {i \in 1..Len(middleWords) : Len(middleWords[i].word) > 0}

\* The row of the k-th word of the created puzzle.
RowOfWord(k) ==
    CHOOSE i \in RowsWithWord :
        Cardinality({j \in RowsWithWord : j <= i}) = k

\* The column of the created puzzle: start word, middle words, end word.
CreatedColumn ==
    <<gameCreated.edgeWords[1]>>
      \o [k \in 1..Len(gameCreated.words) |-> gameCreated.words[k].correct]
      \o <<gameCreated.edgeWords[2]>>

\* C21: a puzzle is created only if every row with a word has a hint that
\* is not blank, and each middle word of the puzzle carries the hint of its
\* own row, also when a row above it has a blank word field.
C21_HintsOfOwnRows ==
    gameCreated # NoGameInfo
    => \A k \in 1..Len(gameCreated.words) :
          /\ Len(trim(middleWords[RowOfWord(k)].hint)) > 0
          /\ gameCreated.words[k].hint = middleWords[RowOfWord(k)].hint

\* C22: a puzzle is created only if its column, start word, middle words in
\* row order, end word, is of words of one length and every two
\* consecutive words are one letter apart; a handleCreate on any other form
\* sets an error and creates nothing.
C22_OnlyValidLadders ==
    [][ /\ gameCreated' # NoGameInfo
          => LET column ==
                    <<gameCreated'.edgeWords[1]>>
                      \o [k \in 1..Len(gameCreated'.words) |->
                             gameCreated'.words[k].correct]
                      \o <<gameCreated'.edgeWords[2]>>
             IN  /\ \A i \in 1..Len(column) : Len(column[i]) = Len(column[1])
                 /\ \A i \in 1..(Len(column) - 1) :
                       OneLetterApart(column[i], column[i + 1])
                 /\ Len(column) = Cardinality(RowsWithWord) + 2
                 /\ \A k \in 1..Len(gameCreated'.words) :
                       gameCreated'.words[k].correct
                          = middleWords[RowOfWord(k)].word
                 /\ error' = NoError
        /\ (handleCreate /\ gameCreated' = NoGameInfo)
          => error' # NoError ]_vars

\* A puzzle of two middle words was created: the ladder AA, AB, CB, BB.
C22_Witness ==
    /\ gameCreated # NoGameInfo
    /\ Len(gameCreated.words) = 2
    /\ CreatedColumn = << <<"A", "A">>, <<"A", "B">>, <<"C", "B">>, <<"B", "B">> >>

----------------------------------------------------------------------------
(* The claims about published puzzles. *)

\* C23: a GET for an id answers with the gameInfo of the last POST of that
\* id this server process answered with success, plus createdAt, and with
\* 404 when there was no such POST.
C23_RoundTrip ==
    (puzzleResponse.method = "GET" /\ puzzleResponse.id # NoId)
    => IF puzzleResponse.id \in DOMAIN saved
       THEN /\ puzzleResponse.status = 200
            /\ puzzleResponse.body.kind = "entry"
            /\ puzzleResponse.body.gameInfo = saved[puzzleResponse.id]
            /\ puzzleResponse.body.createdAt \in Times
       ELSE puzzleResponse.status = 404

\* C24: when the request of the play page to the API did not succeed, by an
\* answer that is not OK or by a failed request, and the puzzle is in the
\* localStorage of the browser, the page shows that puzzle; it shows an
\* error only when the puzzle came from neither.
C24_LocalStorageIsBackup ==
    loadLog.fetch # "none"
    => LET shown == page[loadLog.browser]
       IN  /\ (loadLog.fetch \in {"not ok", "failed"} /\ loadLog.stored)
                => /\ shown.kind = "puzzle"
                   /\ shown.gameInfo =
                         JSONparse(localStorage[loadLog.browser][StorageKey(loadLog.id)])
           /\ shown.kind = "error"
                => (loadLog.fetch # "ok" /\ ~loadLog.stored)

----------------------------------------------------------------------------
(* The claim about generated puzzles. *)

\* The route answered the fetch of generateWordLadderGame with a path.
AnsweredWithPath ==
    /\ generateLog.answer \notin {NotFetched, Rejected}
    /\ generateLog.answer.kind = "success"

\* C25: generateWordLadderGame returns a game only when the route answered
\* with a path of three words or more; the edge words of the game are the
\* first and the last word of the path and its middle words are the words
\* between them, in path order; in every other case it returns null.
C25_GameReproducesPath ==
    generated # NotGenerated
    => IF AnsweredWithPath /\ Len(generateLog.answer.path) >= 3
       THEN /\ generated.kind = "game"
            /\ <<generated.edgeWords[1]>>
                 \o [i \in 1..Len(generated.words) |-> generated.words[i].correct]
                 \o <<generated.edgeWords[2]>>
               = generateLog.answer.path
       ELSE generated = NullGame

\* A game of two middle words was generated from the path AA, AB, BB, BC.
C25_Witness ==
    /\ generated # NotGenerated
    /\ generated.kind = "game"
    /\ Len(generated.words) = 2
    /\ generateLog.answer.path
         = << <<"A", "A">>, <<"A", "B">>, <<"B", "B">>, <<"B", "C">> >>

----------------------------------------------------------------------------
(* The claim about differByOne. *)

\* The positions at which the two strings of the pair hold different
\* letters, letter case put aside.
DifferingPositions ==
    {i \in 1..Len(pair[1]) : ~SameLetter(pair[1][i], pair[2][i])}

\* C26: differByOne is true exactly for two strings of one length that
\* differ, letter case put aside, at exactly one position; it gives the
\* same for the two strings in either order, and false for a string and
\* itself.
C26_DifferByOne ==
    verdict # NoVerdict
    => /\ verdict.forward
            = (/\ Len(pair[1]) = Len(pair[2])
               /\ Cardinality(DifferingPositions) = 1)
       /\ verdict.backward = verdict.forward
       /\ pair[1] = pair[2] => ~verdict.forward

\* Two strings that differ in case at one position and in the letter at
\* another were compared: they differ by one.
C26_Witness ==
    /\ verdict # NoVerdict
    /\ pair = << <<"a", "B">>, <<"A", "A">> >>
    /\ verdict.forward

----------------------------------------------------------------------------
(* The claim about the solved board. *)

\* C27: whenever the status is 'solved', the two edge rows hold the two
\* edge words of the puzzle, each of them once, in either order.
C27_SolvedUsesBothEdgeWords ==
    (game # NoGame /\ gameStatus(game) = "solved")
    => \/ /\ SameUpToCase(game.currentEdgeWords[1], game.edgeWords[1])
          /\ SameUpToCase(game.currentEdgeWords[2], game.edgeWords[2])
       \/ /\ SameUpToCase(game.currentEdgeWords[1], game.edgeWords[2])
          /\ SameUpToCase(game.currentEdgeWords[2], game.edgeWords[1])

----------------------------------------------------------------------------
(* The claims about hints. *)

\* C28: every letter a hint writes into a middle row, at once or by the
\* timer set when a completely wrong row was cleared, is the letter the
\* correct word of that row has at that position.
C28_HintWritesOwnLetter ==
    lastHintWrite # NoHintWrite
    => lastHintWrite.letter = lastHintWrite.rowWord[lastHintWrite.at]

\* C29: the hint cooldown changes only from 0 to 10, by a hint, and by one
\* down; while it is above 0 no hint changes a row; the reveal cooldown
\* changes only from 0 to 20, by a revealed row, and by one down, and while
\* it is above 0 no row is revealed; each of the two, once above 0, is 0
\* again later.
C29_Cooldowns ==
    /\ [][ /\ hintCooldown' # hintCooldown
              => \/ hintCooldown = 0 /\ hintCooldown' = 10
                 \/ hintCooldown > 0 /\ hintCooldown' = hintCooldown - 1
           /\ revealCooldown' # revealCooldown
              => \/ revealCooldown = 0 /\ revealCooldown' = 20
                 \/ revealCooldown > 0 /\ revealCooldown' = revealCooldown - 1
           /\ (game # NoGame /\ game' # game)
              => \/ hintCooldown = 0 /\ hintCooldown' = 10
                 \/ revealCooldown = 0 /\ revealCooldown' = 20 ]_vars
    /\ (hintCooldown > 0) ~> (hintCooldown = 0)
    /\ (revealCooldown > 0) ~> (revealCooldown = 0)

\* A hint was taken and four seconds later a row was revealed: the hint
\* cooldown is at 6, the reveal cooldown at 20.
C29_Witness ==
    /\ hintCooldown = 6
    /\ revealCooldown = 20

====
